---- MODULE Spec2Model ----
(***************************************************************************)
(* Porterman: host-routed TLS reverse proxy with on-demand certificate     *)
(* provisioning.  Strings are sequences of one-character strings so that   *)
(* split, startsWith, slice, the hostname regular expression and parseInt  *)
(* are computed, not assumed.                                              *)
(***************************************************************************)
EXTENDS Integers, Sequences, FiniteSets, TLC

\* ------------------------------------------------------------------ bounds
MaxShortLen == 3       \* length of the exhaustively enumerated short host headers
MaxDigits == 1         \* digits of the numeric token of generated sslip.io hosts
MaxHandshakes == 3     \* TLS handshakes over a run
MaxTasks == 3          \* getCertificate invocations over a run
MaxNow == 1            \* days the clock advances over a run
MaxCalls == 2          \* direct getCertificate calls of the sequential caller
MaxCloseCalls == 2     \* close() calls over a run
MaxInflight == 1       \* requests in flight per listener
MaxCleans == 1         \* runs of cleanCerts
MaxCrashes == 2        \* crashes of the expose process in settings mode
MaxEnvLen == 5         \* characters of a settings target file
MaxPieces == 4         \* pieces (a newline, a character, a marker) of an env file

\* -------------------------------------------------------------- null values
Null == -1                        \* JavaScript null where a number is expected
NullStr == <<"<null>">>           \* JavaScript null where a string is expected
Undefined == <<"<undefined>">>    \* an absent header / option (string-valued)
UndefinedRec == [undefined |-> TRUE]   \* an absent record-valued field
UndefinedSet == {Undefined}            \* an absent list-valued option

\* ------------------------------------------------------------------ strings
Digits == {"0", "1", "2", "3", "4", "5", "6", "7", "8", "9"}
Letters == {"a", "b", "c", "d", "e", "f", "g", "h", "i", "j", "k", "l", "m",
            "n", "o", "p", "q", "r", "s", "t", "u", "v", "w", "x", "y", "z"}
WordChars == Digits \cup Letters \cup {"_"}

DigitVal(c) ==
  CASE c = "0" -> 0 [] c = "1" -> 1 [] c = "2" -> 2 [] c = "3" -> 3
    [] c = "4" -> 4 [] c = "5" -> 5 [] c = "6" -> 6 [] c = "7" -> 7
    [] c = "8" -> 8 [] c = "9" -> 9

DigitChar(n) ==
  CASE n = 0 -> "0" [] n = 1 -> "1" [] n = 2 -> "2" [] n = 3 -> "3"
    [] n = 4 -> "4" [] n = 5 -> "5" [] n = 6 -> "6" [] n = 7 -> "7"
    [] n = 8 -> "8" [] n = 9 -> "9"

\* String(port) for a non-negative integer
RECURSIVE NumToStr(_)
NumToStr(n) == IF n < 10 THEN <<DigitChar(n)>>
               ELSE NumToStr(n \div 10) \o <<DigitChar(n % 10)>>

\* s.split(ch)[0]
SplitFirst(s, ch) ==
  IF \E i \in 1..Len(s) : s[i] = ch
  THEN LET i == CHOOSE k \in 1..Len(s) :
                  s[k] = ch /\ \A j \in 1..(k - 1) : s[j] # ch
       IN  SubSeq(s, 1, i - 1)
  ELSE s

\* s.split(ch): all the parts
RECURSIVE Split(_, _)
Split(s, ch) ==
  IF \E i \in 1..Len(s) : s[i] = ch
  THEN <<SplitFirst(s, ch)>> \o Split(SubSeq(s, Len(SplitFirst(s, ch)) + 2, Len(s)), ch)
  ELSE <<s>>

\* s.trim()
RECURSIVE Trim(_)
Trim(s) ==
  IF s # <<>> /\ s[1] = " " THEN Trim(Tail(s))
  ELSE IF s # <<>> /\ s[Len(s)] = " " THEN Trim(SubSeq(s, 1, Len(s) - 1))
  ELSE s

\* s.startsWith(p)
StartsWith(s, p) == Len(s) >= Len(p) /\ SubSeq(s, 1, Len(p)) = p

\* s.slice(n)
Slice(s, n) == SubSeq(s, n + 1, Len(s))

\* parts.join(sep)
RECURSIVE Join(_, _)
Join(parts, sep) ==
  IF parts = <<>> THEN <<>>
  ELSE IF Len(parts) = 1 THEN parts[1]
  ELSE parts[1] \o sep \o Join(Tail(parts), sep)

\* s.indexOf(sub): the 0-based index of the first occurrence, or -1
IndexOf(s, sub) ==
  LET at == {i \in 0..(Len(s) - Len(sub)) : SubSeq(s, i + 1, i + Len(sub)) = sub}
  IN  IF at = {} THEN -1 ELSE CHOOSE i \in at : \A j \in at : i <= j

\* length of the longest run of characters of class cls starting at index from
RunLen(s, from, cls) ==
  LET ends == {n \in 0..(Len(s) - from + 1) :
                 \A j \in from..(from + n - 1) : s[j] \in cls}
  IN  CHOOSE n \in ends : \A m \in ends : m <= n

\* hostname.match(/^(\w+)-\d+-/): capture group 1, or NullStr
MatchPrefix(hostname) ==
  LET w == RunLen(hostname, 1, WordChars)
      d == RunLen(hostname, w + 2, Digits)
  IN  IF /\ w >= 1
         /\ Len(hostname) >= w + 1
         /\ hostname[w + 1] = "-"
         /\ d >= 1
         /\ Len(hostname) >= w + d + 2
         /\ hostname[w + d + 2] = "-"
      THEN SubSeq(hostname, 1, w)
      ELSE NullStr

\* parseInt(s, 10) of a string of word characters: the leading digits, NaN (Null) without
RECURSIVE DecimalOf(_)
DecimalOf(ds) == IF ds = <<>> THEN 0
                 ELSE 10 * DecimalOf(SubSeq(ds, 1, Len(ds) - 1)) + DigitVal(ds[Len(ds)])

ParseInt(s) ==
  LET d == RunLen(s, 1, Digits)
  IN  IF d = 0 THEN Null ELSE DecimalOf(SubSeq(s, 1, d))

parsePortFromHost(host) ==
  LET hostname == SplitFirst(host, ":")
      prefix == MatchPrefix(hostname)
  IN  IF prefix = NullStr THEN Null ELSE ParseInt(prefix)

makeHostname(prefix, dashedIp) ==
  prefix \o <<"-">> \o dashedIp \o <<".", "s", "s", "l", "i", "p", ".", "i", "o">>

\* ------------------------------------------------------------------ state
VARIABLES
  options,          \* the ServerOptions startServer was called with
  proxyCall,        \* the last call into the proxy engine and what it did
  challengeTokens,  \* certs.ts: token -> key authorization
  httpCall,         \* the last request on the plaintext listener and its response
  now,              \* Date.now(), in days
  disk,             \* durable certificate storage: hostname -> meta.json and the three PEM files
  tasks,            \* the getCertificate invocations, in call order
  microtasks,       \* promise reactions queued by a settlement, run before any other event
  srv,              \* startServer: where its async body stands
  httpListening,    \* the plaintext listener is bound
  httpsListening,   \* the TLS listener is bound
  certCache,        \* server.ts certCache, in insertion order
  certPending,      \* server.ts certPending: hostname -> in-flight getCertificate
  defaultCert,      \* server.ts defaultCert
  handshakes,       \* TLS handshakes that reached the SNI callback, in arrival order
  certsDir,         \* paths.certs: whether the directory exists, and the cleanCerts calls so far
  pidFile,          \* paths.pidFile exists
  closing,          \* the close() calls and what they released
  inflight,         \* requests in flight on the connections of each listener
  envFile,          \* env.ts: the target file of writeEnvFile / cleanEnvFile and the call made
  settings,         \* settings mode: one env target file, the backup manifest and its file
  accountKeyFile,   \* certs.ts: the ACME account key stored at paths.accountKey
  tunnels           \* tunnel.ts: the startTunnels call and the tunnels it started

proxyVars == <<proxyCall>>
httpVars == <<httpCall>>
certVars == <<now, disk, tasks, microtasks, certsDir>>
lifeVars == <<pidFile, closing, inflight>>
toolVars == <<envFile, settings, accountKeyFile, tunnels>>
serverVars == <<srv, httpListening, httpsListening, certCache, certPending, defaultCert, handshakes>>
vars == <<options, proxyCall, challengeTokens, httpCall, now, disk, tasks, microtasks,
          srv, httpListening, httpsListening, certCache, certPending, defaultCert, handshakes,
          certsDir, pidFile, closing, inflight, envFile, settings, accountKeyFile, tunnels>>

\* detected public IP in dashed form (ipToDashed of the collaborator's answer)
DashedIp == <<"1", "-", "2", "-", "3", "-", "4">>

\* ------------------------------------------------------------------ env.ts
NL == "\n"
MARKER_START == <<"#", " ", "[", "p", "o", "r", "t", "e", "r", "m", "a", "n", ":",
                  "s", "t", "a", "r", "t", "]">>
MARKER_END == <<"#", " ", "[", "p", "o", "r", "t", "e", "r", "m", "a", "n", ":",
                "e", "n", "d", "]">>

\* buildManagedBlock(mappings): the markers around one VAR=url line per
\* mapping, joined by newlines
buildManagedBlock(mappings) ==
  LET RECURSIVE Lines(_)
      Lines(ms) == IF ms = <<>> THEN <<>>
                   ELSE Head(ms).envVar \o <<"=">> \o Head(ms).url \o <<NL>> \o Lines(Tail(ms))
  IN  MARKER_START \o <<NL>> \o Lines(mappings) \o MARKER_END

\* replaceManagedBlock(content, block)
replaceManagedBlock(content, block) ==
  LET startIdx == IndexOf(content, MARKER_START)
      endIdx == IndexOf(content, MARKER_END)
  IN  IF startIdx # -1 /\ endIdx # -1
      THEN SubSeq(content, 1, startIdx) \o block \o Slice(content, endIdx + Len(MARKER_END))
      ELSE block
             \o (IF Len(content) > 0 /\ content[1] # NL THEN <<NL, NL>> ELSE <<>>)
             \o content

\* removeManagedBlock(content): the block is cut out, then
\* .replace(/^\n+/, "").replace(/\n{3,}/g, "\n\n")
removeManagedBlock(content) ==
  LET startIdx == IndexOf(content, MARKER_START)
      endIdx == IndexOf(content, MARKER_END)
      \* /^\n+/: the newlines the text starts with
      StripLeading(t) == Slice(t, RunLen(t, 1, {NL}))
      \* /\n{3,}/g: of every run of newlines the first two are kept
      Collapse(t) ==
        LET marked == [i \in 1..Len(t) |->
                         [c |-> t[i],
                          third |-> i >= 3 /\ t[i] = NL /\ t[i - 1] = NL /\ t[i - 2] = NL]]
            Kept(m) == ~m.third
            kept == SelectSeq(marked, Kept)
        IN  [k \in 1..Len(kept) |-> kept[k].c]
  IN  IF startIdx = -1 \/ endIdx = -1 THEN content
      ELSE Collapse(StripLeading(SubSeq(content, 1, startIdx)
                                   \o Slice(content, endIdx + Len(MARKER_END))))

NoFileContent == [exists |-> FALSE, content |-> <<>>]

\* no env file is written in this run
EnvOff == [pc |-> "off"]

\* writeEnvFile(mappings, filePath)
WriteEnvFile(mappings) ==
  /\ envFile.pc = "start"
  /\ LET block == buildManagedBlock(mappings)
     IN  envFile' = [envFile EXCEPT
           !.pc = "written",
           !.block = block,
           !.file = [exists |-> TRUE,
                     content |-> IF @.exists THEN replaceManagedBlock(@.content, block)
                                 ELSE block \o <<NL>>]]
  /\ UNCHANGED <<options, proxyVars, httpVars, challengeTokens, certVars, serverVars, lifeVars,
                 settings, accountKeyFile, tunnels>>

\* cleanEnvFile(filePath); a failing unlink, read or write is caught and
\* leaves the file as it is
CleanEnvFile(ok) ==
  /\ envFile.pc = "written"
  /\ envFile' = [envFile EXCEPT
       !.pc = "cleaned",
       !.file = IF ~@.exists \/ ~ok THEN @
                ELSE IF envFile.isDefault THEN NoFileContent
                ELSE [@ EXCEPT !.content = removeManagedBlock(@)]]
  /\ UNCHANGED <<options, proxyVars, httpVars, challengeTokens, certVars, serverVars, lifeVars,
                 settings, accountKeyFile, tunnels>>

\* ------------------------------------------------- server.ts: settings mode
\* the key of an env line ("" when the line has no "="), after trim()
EnvLineKey(l) ==
  LET line == Trim(l)
      eqIndex == IndexOf(line, <<"=">>)
  IN  IF eqIndex = -1 THEN <<>> ELSE Trim(SubSeq(line, 1, eqIndex))

\* blank lines and comments are skipped by parseEnvFile and setEnvVariable
EnvLineSkipped(l) == Trim(l) = <<>> \/ Trim(l)[1] = "#"

\* parseEnvFile(content): key -> value, the last line of a key wins and a
\* value inside a pair of quotes loses them
parseEnvFile(content) ==
  LET lines == Split(content, NL)
      Key(i) == IF EnvLineSkipped(lines[i]) THEN <<>> ELSE EnvLineKey(lines[i])
      Value(i) ==
        LET line == Trim(lines[i])
            value == Trim(Slice(line, IndexOf(line, <<"=">>) + 1))
            Quoted(q) == value # <<>> /\ value[1] = q /\ value[Len(value)] = q
        IN  IF Quoted("\"") \/ Quoted("'") THEN SubSeq(value, 2, Len(value) - 1) ELSE value
      keys == {Key(i) : i \in 1..Len(lines)} \ {<<>>}
  IN  [k \in keys |->
         Value(CHOOSE i \in 1..Len(lines) :
                 Key(i) = k /\ \A j \in (i + 1)..Len(lines) : Key(j) # k)]

\* setEnvVariable(content, key, value)
setEnvVariable(content, key, value) ==
  LET lines == Split(content, NL)
      hits == {i \in 1..Len(lines) : ~EnvLineSkipped(lines[i]) /\ EnvLineKey(lines[i]) = key}
      newLine == key \o <<"=">> \o value
  IN  IF hits # {}
      THEN LET i == CHOOSE h \in hits : \A other \in hits : h <= other
               leadingWhitespace == SubSeq(lines[i], 1, RunLen(lines[i], 1, {" "}))
           IN  Join([lines EXCEPT ![i] = leadingWhitespace \o newLine], <<NL>>)
      ELSE IF content = <<>> THEN newLine \o <<NL>>
      ELSE newLine \o <<NL>> \o content

\* removeEnvVariable(content, key)
removeEnvVariable(content, key) ==
  LET lines == Split(content, NL)
      Blank(l) == Trim(l) = <<>>
      RECURSIVE Filter(_, _)
      Filter(i, prevWasBlank) ==
        IF i > Len(lines) THEN <<>>
        ELSE IF IndexOf(Trim(lines[i]), <<"=">>) # -1 /\ EnvLineKey(lines[i]) = key
        THEN Filter(i + 1, TRUE)
        ELSE IF Blank(lines[i]) /\ prevWasBlank THEN Filter(i + 1, prevWasBlank)
        ELSE <<lines[i]>> \o Filter(i + 1, Blank(lines[i]))
      filtered == Filter(1, FALSE)
      shifted == RunLen([i \in 1..Len(filtered) |-> Blank(filtered[i])], 1, {TRUE})
  IN  Join(SubSeq(filtered, shifted + 1, Len(filtered)), <<NL>>)

\* settings mode is not used in this run
SettingsOff == [pc |-> "off"]

NoManifest == [createdFiles |-> {}, entries |-> <<>>]

\* createBackup(config) and writeBackupFile(name, manifest) for one env
\* target: an entry per variable with its parsed value, or NullStr
CreateBackup ==
  /\ settings.pc = "start"
  /\ LET parsed == IF settings.file.exists THEN parseEnvFile(settings.file.content)
                   ELSE [k \in {} |-> <<>>]
     IN  settings' = [settings EXCEPT
           !.pc = "backedUp",
           !.backupFile = TRUE,
           !.manifest =
              [createdFiles |-> IF settings.file.exists THEN {} ELSE {"target"},
               entries |-> [i \in 1..Len(settings.variables) |->
                  [variable |-> settings.variables[i].key,
                   originalValue |-> IF settings.variables[i].key \in DOMAIN parsed
                                     THEN parsed[settings.variables[i].key] ELSE NullStr,
                   fileCreated |-> ~settings.file.exists]]]]
  /\ UNCHANGED <<options, proxyVars, httpVars, challengeTokens, certVars, serverVars, lifeVars,
                 envFile, accountKeyFile, tunnels>>

\* applySettings(config, tunnelUrls): nothing is written for a tunnel without URL
ApplySettings(hasUrl) ==
  /\ settings.pc = "backedUp"
  /\ LET RECURSIVE SetAll(_, _)
         SetAll(content, i) ==
           IF i > Len(settings.variables) THEN content
           ELSE SetAll(setEnvVariable(content, settings.variables[i].key,
                                      settings.variables[i].value), i + 1)
     IN  settings' = [settings EXCEPT
           !.pc = "applied",
           !.file = IF hasUrl
                    THEN [exists |-> TRUE,
                          content |-> SetAll(IF @.exists THEN @.content ELSE <<>>, 1)]
                    ELSE @]
  /\ UNCHANGED <<options, proxyVars, httpVars, challengeTokens, certVars, serverVars, lifeVars,
                 envFile, accountKeyFile, tunnels>>

\* restoreFromBackup(name, manifest), the loop over the target files: a
\* created file is unlinked, an existing env file gets its entries put back
RestoredTarget(file, manifest) ==
  LET entries == manifest.entries
      RECURSIVE Restored(_, _)
      Restored(content, i) ==
        IF i > Len(entries) THEN content
        ELSE Restored(IF entries[i].originalValue = NullStr
                      THEN removeEnvVariable(content, entries[i].variable)
                      ELSE setEnvVariable(content, entries[i].variable,
                                          entries[i].originalValue), i + 1)
  IN  IF entries = <<>> THEN file
      ELSE IF "target" \in manifest.createdFiles THEN [exists |-> FALSE, content |-> <<>>]
      ELSE IF ~file.exists THEN file
      ELSE [file EXCEPT !.content = Restored(@, 1)]

\* restoreFromBackup(name, manifest) at shutdown
RestoreFromBackup ==
  /\ settings.pc = "applied"
  /\ settings' = [settings EXCEPT
       !.pc = "restored",
       !.backupFile = FALSE,
       !.file = RestoredTarget(@, settings.manifest)]
  /\ UNCHANGED <<options, proxyVars, httpVars, challengeTokens, certVars, serverVars, lifeVars,
                 envFile, accountKeyFile, tunnels>>

\* variant: a backup of a previous session is not looked at
Recover_SkipsRestore ==
  /\ settings.pc = "boot"
  /\ settings' = [settings EXCEPT !.pc = "start"]
  /\ UNCHANGED <<options, proxyVars, httpVars, challengeTokens, certVars, serverVars, lifeVars,
                 envFile, accountKeyFile, tunnels>>

\* the expose action in settings mode, crash recovery: readBackupFile renames
\* a backup that does not parse and returns null; a backup of a previous
\* session is restored, and deleted, before anything else
Recover ==
  /\ settings.pc = "boot"
  /\ settings' =
       IF ~settings.backupFile THEN [settings EXCEPT !.pc = "start"]
       ELSE IF settings.backupCorrupt
       THEN [settings EXCEPT !.pc = "start", !.backupFile = FALSE, !.backupCorrupt = FALSE,
                             !.manifest = NoManifest]
       ELSE [settings EXCEPT !.pc = "start", !.backupFile = FALSE, !.manifest = NoManifest,
                             !.file = RestoredTarget(@, settings.manifest)]
  /\ UNCHANGED <<options, proxyVars, httpVars, challengeTokens, certVars, serverVars, lifeVars,
                 envFile, accountKeyFile, tunnels>>

\* startTunnels rejects: the backup is unlinked and the process exits
TunnelsFail ==
  /\ settings.pc = "backedUp"
  /\ settings' = [settings EXCEPT !.pc = "exited", !.backupFile = FALSE]
  /\ UNCHANGED <<options, proxyVars, httpVars, challengeTokens, certVars, serverVars, lifeVars,
                 envFile, accountKeyFile, tunnels>>

\* the process dies between two steps: the files stay, a manifest that is not
\* on disk is gone, and the next session starts
Crash ==
  /\ settings.pc \in {"start", "backedUp", "applied", "restored", "exited"}
  /\ settings.crashes < MaxCrashes
  /\ settings' = [settings EXCEPT
       !.pc = "boot",
       !.crashes = @ + 1,
       !.manifest = IF settings.backupFile THEN @ ELSE NoManifest]
  /\ UNCHANGED <<options, proxyVars, httpVars, challengeTokens, certVars, serverVars, lifeVars,
                 envFile, accountKeyFile, tunnels>>

\* the process dies inside writeBackupFile: the backup is there and does not parse
CrashInWriteBackup ==
  /\ settings.pc = "start"
  /\ settings.crashes < MaxCrashes
  /\ settings' = [settings EXCEPT !.pc = "boot", !.crashes = @ + 1,
                                  !.backupFile = TRUE, !.backupCorrupt = TRUE]
  /\ UNCHANGED <<options, proxyVars, httpVars, challengeTokens, certVars, serverVars, lifeVars,
                 envFile, accountKeyFile, tunnels>>

\* the process dies inside restoreFromBackup, after the target file was
\* written and before the backup is unlinked
CrashInRestore ==
  /\ settings.pc \in {"boot", "applied"}
  /\ settings.backupFile
  /\ ~settings.backupCorrupt
  /\ settings.crashes < MaxCrashes
  /\ settings' = [settings EXCEPT !.pc = "boot", !.crashes = @ + 1,
                                  !.file = RestoredTarget(@, settings.manifest)]
  /\ UNCHANGED <<options, proxyVars, httpVars, challengeTokens, certVars, serverVars, lifeVars,
                 envFile, accountKeyFile, tunnels>>

\* ------------------------------------------------- startServer: route table
isValidPort(port) == port >= 1 /\ port <= 65535

HasName(opts) == opts.name # Undefined /\ opts.name # <<>>

isDynamic(opts) == Len(opts.ports) = 0

routes(opts) ==
  [i \in 1..Len(opts.ports) |->
     LET port == opts.ports[i]
         named == HasName(opts) /\ Len(opts.ports) = 1
     IN  [hostname |-> makeHostname(IF named THEN opts.name ELSE NumToStr(port), DashedIp),
          targetPort |-> port,
          name |-> IF named THEN opts.name ELSE Undefined]]

\* name -> port; an empty map unless one port is exposed under a custom name
nameMap(opts) ==
  IF HasName(opts) /\ Len(opts.ports) = 1
  THEN [n \in {opts.name} |-> opts.ports[1]]
  ELSE [n \in {} |-> Null]

\* ------------------------------------------------------------ proxy engine
\* hostname -> target port; a later route replaces an earlier one (Map.set)
routeMap(rts) ==
  [h \in {rts[i].hostname : i \in 1..Len(rts)} |->
     LET last == CHOOSE i \in 1..Len(rts) :
                   rts[i].hostname = h /\ \A j \in (i + 1)..Len(rts) : rts[j].hostname # h
     IN  rts[last].targetPort]

\* variant: the dynamic flag is not honoured
resolveTargetPort_StaticOnly(opts, host) ==
  LET hostname == SplitFirst(host, ":")
      rm == routeMap(routes(opts))
      nm == nameMap(opts)
      prefix == SplitFirst(hostname, "-")
      port == parsePortFromHost(host)
  IN  IF hostname \in DOMAIN rm THEN rm[hostname]
      ELSE IF prefix \in DOMAIN nm THEN nm[prefix]
      ELSE IF port # Null /\ \E i \in 1..Len(opts.ports) : routes(opts)[i].targetPort = port
           THEN port
           ELSE Null

\* variant: a parsed port is accepted without looking at the routes
resolveTargetPort_AnyPort(opts, host) ==
  LET hostname == SplitFirst(host, ":")
      rm == routeMap(routes(opts))
      nm == nameMap(opts)
      prefix == SplitFirst(hostname, "-")
      port == parsePortFromHost(host)
  IN  IF hostname \in DOMAIN rm THEN rm[hostname]
      ELSE IF prefix \in DOMAIN nm THEN nm[prefix]
      ELSE port

\* variant: the numeric token is parsed before the alias map is consulted
resolveTargetPort_NumericFirst(opts, host) ==
  LET hostname == SplitFirst(host, ":")
      rm == routeMap(routes(opts))
      nm == nameMap(opts)
      prefix == SplitFirst(hostname, "-")
      port == parsePortFromHost(host)
  IN  IF hostname \in DOMAIN rm THEN rm[hostname]
      ELSE IF port # Null
           THEN IF isDynamic(opts) THEN port
                ELSE IF \E i \in 1..Len(opts.ports) : routes(opts)[i].targetPort = port
                     THEN port
                     ELSE Null
           ELSE IF prefix \in DOMAIN nm THEN nm[prefix]
           ELSE Null

resolveTargetPort(opts, host) ==
  LET hostname == SplitFirst(host, ":")
      rm == routeMap(routes(opts))
      nm == nameMap(opts)
      prefix == SplitFirst(hostname, "-")
      port == parsePortFromHost(host)
  IN  IF hostname \in DOMAIN rm THEN rm[hostname]
      ELSE IF prefix \in DOMAIN nm THEN nm[prefix]
      ELSE IF port # Null
           THEN IF isDynamic(opts) THEN port
                ELSE IF \E i \in 1..Len(opts.ports) : routes(opts)[i].targetPort = port
                     THEN port
                     ELSE Null
           ELSE Null

\* variant: the 404 branch does not return
handleRequest_NoReturn(opts, host) ==
  IF host = Undefined \/ host = <<>>
  THEN [status |-> 400, target |-> Null, ret |-> FALSE]
  ELSE LET targetPort == resolveTargetPort(opts, host)
       IN  IF targetPort = Null
           THEN [status |-> 404, target |-> 0, ret |-> TRUE]
           ELSE [status |-> 0, target |-> targetPort, ret |-> TRUE]

\* handleRequest(req, res): status written by the engine (0: none), the port
\* proxy.web was pointed at (Null: no backend contacted) and the return value
handleRequest(opts, host) ==
  IF host = Undefined \/ host = <<>>
  THEN [status |-> 400, target |-> Null, ret |-> FALSE]
  ELSE LET targetPort == resolveTargetPort(opts, host)
       IN  IF targetPort = Null
           THEN [status |-> 404, target |-> Null, ret |-> FALSE]
           ELSE [status |-> 0, target |-> targetPort, ret |-> TRUE]

\* handleUpgrade(req, socket, head): the port proxy.ws was pointed at (Null: no
\* backend contacted), the return value, and what became of the client socket:
\* "piped" when proxy.ws took it over, "open" when the function returned
\* without touching it ("ended" and "destroyed" are what socket.end() and
\* socket.destroy() would leave; no statement of the function calls them)
handleUpgrade(opts, host) ==
  IF host = Undefined \/ host = <<>>
  THEN [target |-> Null, ret |-> FALSE, socket |-> "open"]
  ELSE LET targetPort == resolveTargetPort(opts, host)
       IN  IF targetPort = Null
           THEN [target |-> Null, ret |-> FALSE, socket |-> "open"]
           ELSE [target |-> targetPort, ret |-> TRUE, socket |-> "piped"]

\* ERROR_502_HTML(port): a fixed page whose only parameter is the port; detail
\* is the text taken from the error (none)
ERROR_502_HTML(port) == [template |-> "502 Bad Gateway", port |-> port, detail |-> <<>>]

NoPage == [template |-> "none", port |-> Null, detail |-> <<>>]

UnknownHostHeader == <<"u", "n", "k", "n", "o", "w", "n">>

\* variant: the page is written whether or not headers were sent
proxyOnError_AlwaysWrites(opts, err, host, res) ==
  LET h == IF host = Undefined THEN UnknownHostHeader ELSE host
      targetPort == resolveTargetPort(opts, h)
  IN  IF res.kind = "ServerResponse"
      THEN [wrote |-> TRUE, status |-> 502, threw |-> FALSE,
            body |-> ERROR_502_HTML(IF targetPort = Null THEN 0 ELSE targetPort)]
      ELSE [wrote |-> FALSE, status |-> 0, threw |-> FALSE, body |-> NoPage]

\* proxy.on("error", (err, req, res) => ...): what the handler writes to res
proxyOnError(opts, err, host, res) ==
  LET h == IF host = Undefined THEN UnknownHostHeader ELSE host
      targetPort == resolveTargetPort(opts, h)
  IN  IF res.kind = "ServerResponse" /\ ~res.headersSent
      THEN [wrote |-> TRUE, status |-> 502, threw |-> FALSE,
            body |-> ERROR_502_HTML(IF targetPort = Null THEN 0 ELSE targetPort)]
      ELSE [wrote |-> FALSE, status |-> 0, threw |-> FALSE, body |-> NoPage]

\* --------------------------------------------- certs.ts: challenge responder
EmptyMap == [x \in {} |-> Null]

\* variant: set() leaves the map as it is
MapSet_Noop(m, k, v) == m

MapSet(m, k, v) == [x \in DOMAIN m \cup {k} |-> IF x = k THEN v ELSE m[x]]
\* variant: delete() leaves the map as it is
MapDelete_Noop(m, k) == m

MapDelete(m, k) == [x \in DOMAIN m \ {k} |-> m[x]]

AcmePrefix == <<"/", ".", "w", "e", "l", "l", "-", "k", "n", "o", "w", "n", "/",
                "a", "c", "m", "e", "-", "c", "h", "a", "l", "l", "e", "n", "g", "e", "/">>

\* challengeCreateFn / challengeRemoveFn handed to the ACME client
challengeCreateFn(tokens, token, keyAuthorization) == MapSet(tokens, token, keyAuthorization)
\* variant: challengeRemoveFn leaves the token in the map
challengeRemoveFn_Keeps(tokens, token) == tokens

challengeRemoveFn(tokens, token) == MapDelete(tokens, token)

\* variant: the whole url is looked up
handleAcmeChallenge_NoSlice(tokens, url) ==
  IF ~StartsWith(url, AcmePrefix) THEN [value |-> NullStr, consulted |-> FALSE]
  ELSE [value |-> IF url \in DOMAIN tokens THEN tokens[url] ELSE NullStr,
        consulted |-> TRUE]

\* handleAcmeChallenge(url): the answer, and whether the token map was read
handleAcmeChallenge(tokens, url) ==
  IF ~StartsWith(url, AcmePrefix) THEN [value |-> NullStr, consulted |-> FALSE]
  ELSE LET token == Slice(url, Len(AcmePrefix))
       IN  [value |-> IF token \in DOMAIN tokens THEN tokens[token] ELSE NullStr,
            consulted |-> TRUE]

\* ------------------------------------------- server.ts: plaintext listener
\* authCredentials parsed from --auth user:pass (startServer throws when a part is empty)
authCredentials(opts) ==
  IF opts.auth = Undefined \/ opts.auth = <<>> THEN UndefinedRec
  ELSE LET parts == Split(opts.auth, ":")
       IN  [user |-> parts[1], pass |-> IF Len(parts) >= 2 THEN parts[2] ELSE <<>>]

AuthOptionValid(opts) ==
  authCredentials(opts) = UndefinedRec
    \/ (authCredentials(opts).user # <<>> /\ authCredentials(opts).pass # <<>>)

BasicScheme == <<"B", "a", "s", "i", "c", " ">>

\* checkAuth(req, res): 0 when the request passes, else the status written.
\* req.authorization is [scheme, decoded]: the text before the payload and
\* the payload after base64 decoding.
checkAuth(opts, req) ==
  LET cred == authCredentials(opts)
  IN  IF cred = UndefinedRec THEN 0
      ELSE IF req.authorization = UndefinedRec \/ req.authorization.scheme # BasicScheme THEN 401
      ELSE LET parts == Split(req.authorization.decoded, ":")
               user == parts[1]
               pass == IF Len(parts) >= 2 THEN parts[2] ELSE Undefined
           IN  IF user # cred.user \/ pass # cred.pass THEN 403 ELSE 0

Ipv6Mapped == <<":", ":", "f", "f", "f", "f", ":">>

\* checkIpAllow(req, res): 0 when the request passes, else the status written
checkIpAllow(opts, req) ==
  IF opts.ipAllow = UndefinedSet THEN 0
  ELSE LET clientIp == IF req.xff # Undefined THEN Trim(SplitFirst(req.xff, ","))
                       ELSE req.remoteAddress
           normalizedIp == IF StartsWith(clientIp, Ipv6Mapped)
                           THEN Slice(clientIp, Len(Ipv6Mapped)) ELSE clientIp
       IN  IF normalizedIp \in opts.ipAllow THEN 0 ELSE 403

NoResponse == [status |-> 0, body |-> NullStr, location |-> NullStr,
               target |-> Null, handler |-> "none"]

\* the checks and the proxying shared by the TLS listener and the no-TLS
\* plaintext listener
GuardedProxy(opts, req) ==
  IF checkIpAllow(opts, req) # 0
  THEN [NoResponse EXCEPT !.status = checkIpAllow(opts, req), !.handler = "ipAllow"]
  ELSE IF checkAuth(opts, req) # 0
  THEN [NoResponse EXCEPT !.status = checkAuth(opts, req), !.handler = "auth"]
  ELSE LET r == handleRequest(opts, req.host)
       IN  [NoResponse EXCEPT !.status = r.status, !.target = r.target, !.handler = "proxy"]

\* variant: the Host header is copied with its port
HttpsUrl_KeepsHostPort(opts, req) ==
  LET host == IF req.host = Undefined THEN <<>> ELSE req.host
  IN  <<"h", "t", "t", "p", "s", ":", "/", "/">> \o host
        \o (IF opts.httpsPort # 443 THEN <<":">> \o NumToStr(opts.httpsPort) ELSE <<>>)
        \o (IF req.url = Undefined THEN <<"/">> ELSE req.url)

HttpsUrl(opts, req) ==
  LET host == IF req.host = Undefined THEN <<>> ELSE req.host
  IN  <<"h", "t", "t", "p", "s", ":", "/", "/">> \o SplitFirst(host, ":")
        \o (IF opts.httpsPort # 443 THEN <<":">> \o NumToStr(opts.httpsPort) ELSE <<>>)
        \o (IF req.url = Undefined THEN <<"/">> ELSE req.url)

\* variant: the access checks run before the challenge responder
httpRequestHandler_ChecksFirst(opts, tokens, req) ==
  LET challenge == IF req.url # Undefined /\ req.url # <<>>
                   THEN handleAcmeChallenge(tokens, req.url).value ELSE NullStr
  IN  IF opts.noSsl /\ GuardedProxy(opts, req).handler # "proxy"
      THEN GuardedProxy(opts, req)
      ELSE IF challenge # NullStr /\ challenge # <<>>
      THEN [NoResponse EXCEPT !.status = 200, !.body = challenge, !.handler = "acme"]
      ELSE IF opts.noSsl THEN GuardedProxy(opts, req)
      ELSE [NoResponse EXCEPT !.status = 301, !.location = HttpsUrl(opts, req),
                              !.handler = "redirect"]

\* httpRequestHandler(req, res)
httpRequestHandler(opts, tokens, req) ==
  LET challenge == IF req.url # Undefined /\ req.url # <<>>
                   THEN handleAcmeChallenge(tokens, req.url).value ELSE NullStr
  IN  IF challenge # NullStr /\ challenge # <<>>
      THEN [NoResponse EXCEPT !.status = 200, !.body = challenge, !.handler = "acme"]
      ELSE IF opts.noSsl THEN GuardedProxy(opts, req)
      ELSE [NoResponse EXCEPT !.status = 301, !.location = HttpsUrl(opts, req),
                              !.handler = "redirect"]

\* the request listener of the TLS server
httpsRequestHandler(opts, req) == GuardedProxy(opts, req)

\* the "upgrade" listeners of the TLS server and, in no-TLS mode, of the
\* plaintext server: proxyEngine.handleUpgrade(req, socket, head); the return
\* value is discarded and the listener does nothing else with the socket
upgradeHandler(opts, req) ==
  [status |-> NoResponse.status, body |-> NoResponse.body,
   location |-> NoResponse.location,
   target |-> handleUpgrade(opts, req.host).target, handler |-> "upgrade",
   socket |-> handleUpgrade(opts, req.host).socket]

\* ------------------------------------------------ certs.ts: durable storage
ReuseDays == 30          \* isCertValid: more than 30 days must remain
AcmeDays == 90           \* obtainCert: expiresAt = now + 90 days
SelfSignedDays_AsAcme == AcmeDays   \* variant: the lifetime of an ACME certificate
SelfSignedDays == 365    \* generateSelfSigned: expiresAt = now + 365 days

\* PEM material: who made it (kind) and in which getCertificate call (by)
NoFile == [kind |-> "none", by |-> 0]
Material(kind, t) == [kind |-> kind, by |-> t]

NoMeta == [state |-> "none", issuedAt |-> 0, expiresAt |-> 0, domains |-> <<>>]
CorruptMeta == [state |-> "corrupt", issuedAt |-> 0, expiresAt |-> 0, domains |-> <<>>]
CertMeta(issued, days, hostname) ==
  [state |-> "ok", issuedAt |-> issued, expiresAt |-> issued + days, domains |-> <<hostname>>]

EmptyDir == [meta |-> NoMeta, key |-> NoFile, cert |-> NoFile, chain |-> NoFile]

NoResult == [key |-> NoFile, cert |-> NoFile, chain |-> NoFile, selfSigned |-> FALSE]

\* variant: a certificate with exactly 30 days left is still reused
isCertValid_AtLeast(d, hostname, time) ==
  /\ d[hostname].meta.state = "ok"
  /\ d[hostname].meta.expiresAt - time >= ReuseDays

\* isCertValid(hostname): meta.json exists, parses, and more than 30 days remain
isCertValid(d, hostname, time) ==
  /\ d[hostname].meta.state = "ok"
  /\ d[hostname].meta.expiresAt - time > ReuseDays

\* loadCertFromDisk(hostname) can read all three files
CanLoad(d, hostname) ==
  /\ d[hostname].key.kind # "none"
  /\ d[hostname].cert.kind # "none"
  /\ d[hostname].chain.kind # "none"

\* the token of the HTTP-01 challenge of the order of call t, and its key authorization
TokenOf(t) == <<"t", DigitChar(t)>>
KeyAuthOf(t) == TokenOf(t) \o <<".", "x">>

\* an ACME account key, named by the getCertificate call that generated it
NoKey == [by |-> 0]

\* ---------------------------------------------------------------- tunnel.ts
MaxTunnelErrors == 1     \* "error" events of one tunnel
MaxTunnels == 3          \* ports given to one startTunnels call

\* no startTunnels call has been made
TunnelsOff == [call |-> "none", list |-> <<>>]

\* startTunnel(port): Tunnel.quick spawned the process, the 30-second timer
\* is armed and the promise is pending; by is the event that settled it
NewTunnel(port) ==
  [port |-> port, running |-> TRUE, urlSeen |-> FALSE, timer |-> TRUE,
   promise |-> "pending", by |-> "none", errors |-> 0, stopCalls |-> 0]

\* resolve() and reject() act on a pending promise only
Settle(tn, outcome, event) ==
  IF tn.promise = "pending" THEN [tn EXCEPT !.promise = outcome, !.by = event] ELSE tn

\* Promise.all over the startTunnel promises: rejected with the first
\* rejection, resolved when every promise is resolved
AllOf(call, list) ==
  IF call # "pending" THEN call
  ELSE IF \E i \in 1..Len(list) : list[i].promise = "rejected" THEN "rejected"
  ELSE IF \A i \in 1..Len(list) : list[i].promise = "resolved" THEN "resolved"
  ELSE "pending"

\* the ports argument: one to MaxTunnels distinct ports
TunnelPortLists == {[i \in 1..n |-> 3000 + i - 1] : n \in 1..MaxTunnels}

\* startTunnels(ports): every startTunnel runs its executor at once
StartTunnels(ports) ==
  /\ tunnels.call = "none"
  /\ tunnels' = [call |-> "pending", list |-> [i \in 1..Len(ports) |-> NewTunnel(ports[i])]]
  /\ UNCHANGED <<options, proxyVars, httpVars, challengeTokens, certVars, serverVars, lifeVars,
                 envFile, settings, accountKeyFile>>

\* tunnel.once("url"): the timer is cleared and resolve is called
TunnelUrl(i) ==
  /\ tunnels.call # "none"
  /\ i \in 1..Len(tunnels.list)
  /\ tunnels.list[i].running
  /\ ~tunnels.list[i].urlSeen
  /\ LET list == [tunnels.list EXCEPT ![i] =
                    Settle([@ EXCEPT !.urlSeen = TRUE, !.timer = FALSE], "resolved", "url")]
     IN  tunnels' = [call |-> AllOf(tunnels.call, list), list |-> list]
  /\ UNCHANGED <<options, proxyVars, httpVars, challengeTokens, certVars, serverVars, lifeVars,
                 envFile, settings, accountKeyFile>>

\* tunnel.on("error"): the timer is cleared and reject is called; the handler
\* does not stop the tunnel, whose process may or may not have gone (dies)
TunnelError(i, dies) ==
  /\ tunnels.call # "none"
  /\ i \in 1..Len(tunnels.list)
  /\ tunnels.list[i].running
  /\ tunnels.list[i].errors < MaxTunnelErrors
  /\ LET list == [tunnels.list EXCEPT ![i] =
                    Settle([@ EXCEPT !.timer = FALSE, !.errors = @ + 1,
                                     !.running = ~dies], "rejected", "error")]
     IN  tunnels' = [call |-> AllOf(tunnels.call, list), list |-> list]
  /\ UNCHANGED <<options, proxyVars, httpVars, challengeTokens, certVars, serverVars, lifeVars,
                 envFile, settings, accountKeyFile>>

\* the setTimeout callback: tunnel.stop() and reject
TunnelTimeout(i) ==
  /\ tunnels.call # "none"
  /\ i \in 1..Len(tunnels.list)
  /\ tunnels.list[i].timer
  /\ LET list == [tunnels.list EXCEPT ![i] =
                    Settle([@ EXCEPT !.timer = FALSE, !.running = FALSE,
                                     !.stopCalls = @ + 1], "rejected", "timeout")]
     IN  tunnels' = [call |-> AllOf(tunnels.call, list), list |-> list]
  /\ UNCHANGED <<options, proxyVars, httpVars, challengeTokens, certVars, serverVars, lifeVars,
                 envFile, settings, accountKeyFile>>

\* the caller's shutdown after a successful start: tunnel.stop() for each
\* TunnelInstance it was given
StopTunnels ==
  /\ tunnels.call = "resolved"
  /\ \E i \in 1..Len(tunnels.list) : tunnels.list[i].stopCalls = 0
  /\ tunnels' = [tunnels EXCEPT !.list =
                   [i \in 1..Len(tunnels.list) |->
                      [tunnels.list[i] EXCEPT !.running = FALSE, !.stopCalls = @ + 1]]]
  /\ UNCHANGED <<options, proxyVars, httpVars, challengeTokens, certVars, serverVars, lifeVars,
                 envFile, settings, accountKeyFile>>

\* ------------------------------------------------ certs.ts: getCertificate
NewTask(hostname, forceRenew, via) ==
  [hostname |-> hostname, forceRenew |-> forceRenew, via |-> via, pc |-> "check",
   acmeAttempts |-> 0, acmeFailed |-> FALSE, selfSignedRuns |-> 0,
   checkedAt |-> -1, seenMeta |-> NoMeta, savedAt |-> -1, result |-> NoResult,
   lateWrites |-> {}, accountKey |-> NoKey, creatingKey |-> FALSE]

Settled(t) == tasks[t].pc \in {"resolved", "rejected"}

\* the promise of call t settles: its reactions are queued
Resolve(t, result, fields) ==
  /\ tasks' = [tasks EXCEPT ![t] = [fields EXCEPT !.pc = "resolved", !.result = result]]
  /\ microtasks' = <<[kind |-> "settled", id |-> t]>>

Reject(t, fields) ==
  /\ tasks' = [tasks EXCEPT ![t] = [fields EXCEPT !.pc = "rejected"]]
  /\ microtasks' = <<[kind |-> "settled", id |-> t]>>

Goto(t, fields, pc) ==
  /\ tasks' = [tasks EXCEPT ![t] = [fields EXCEPT !.pc = pc]]
  /\ UNCHANGED microtasks

\* ensureDirs, then the reuse decision: !forceRenew && isCertValid(hostname)
GcCheck(t, dirsOk) ==
  /\ microtasks = <<>>
  /\ tasks[t].pc = "check"
  /\ LET task == tasks[t]
         seen == [task EXCEPT !.checkedAt = now, !.seenMeta = disk[task.hostname].meta]
     IN  IF ~dirsOk THEN Reject(t, task)
         ELSE IF ~task.forceRenew /\ isCertValid(disk, task.hostname, now)
              THEN Goto(t, seen, "load")
              ELSE Goto(t, [seen EXCEPT !.acmeAttempts = @ + 1], "acme")
  /\ certsDir' = IF dirsOk THEN [certsDir EXCEPT !.exists = TRUE] ELSE certsDir
  /\ UNCHANGED <<options, proxyVars, httpVars, challengeTokens, now, disk, serverVars,
                 lifeVars, toolVars>>

\* loadCertFromDisk and return { ...files, selfSigned: false }
GcLoad(t, readOk) ==
  /\ microtasks = <<>>
  /\ tasks[t].pc = "load"
  /\ LET task == tasks[t]
         dir == disk[task.hostname]
     IN  IF readOk /\ CanLoad(disk, task.hostname)
         THEN Resolve(t, [key |-> dir.key, cert |-> dir.cert, chain |-> dir.chain,
                          selfSigned |-> FALSE], task)
         ELSE Reject(t, task)
  /\ UNCHANGED <<options, proxyVars, httpVars, challengeTokens, now, disk, serverVars,
                 certsDir, lifeVars, toolVars>>

\* getAccountKey up to its second await: ensureDirs, then existsSync decides
\* between reading the stored key and generating one
GcGetAccountKey(t) ==
  /\ microtasks = <<>>
  /\ tasks[t].pc = "acme"
  /\ tasks[t].accountKey = NoKey
  /\ ~tasks[t].creatingKey
  /\ tasks' = [tasks EXCEPT ![t] =
                 IF accountKeyFile # NoKey THEN [@ EXCEPT !.accountKey = accountKeyFile]
                 ELSE [@ EXCEPT !.creatingKey = TRUE]]
  /\ UNCHANGED <<options, proxyVars, httpVars, challengeTokens, now, disk, microtasks, serverVars,
                 certsDir, lifeVars, toolVars>>

\* getAccountKey: createPrivateKey and writeSecureFile are done, the new key
\* is stored and returned
GcCreateAccountKey(t) ==
  /\ microtasks = <<>>
  /\ tasks[t].pc = "acme"
  /\ tasks[t].creatingKey
  /\ tasks' = [tasks EXCEPT ![t] = [@ EXCEPT !.accountKey = [by |-> t], !.creatingKey = FALSE]]
  /\ accountKeyFile' = [by |-> t]
  /\ UNCHANGED <<options, proxyVars, httpVars, challengeTokens, now, disk, microtasks, serverVars,
                 certsDir, lifeVars, envFile, settings, tunnels>>

\* variant: obtainCert is not wrapped in try/catch
GcAcmeOrder_Uncaught(t, ok) ==
  /\ microtasks = <<>>
  /\ tasks[t].pc = "acme"
  /\ IF ok
     THEN /\ challengeTokens' = challengeCreateFn(challengeTokens, TokenOf(t), KeyAuthOf(t))
          /\ Goto(t, tasks[t], "challenge")
     ELSE /\ UNCHANGED challengeTokens
          /\ Reject(t, [tasks[t] EXCEPT !.acmeFailed = TRUE])
  /\ UNCHANGED <<options, proxyVars, httpVars, now, disk, serverVars,
                 certsDir, lifeVars, toolVars>>

\* obtainCert up to the HTTP-01 challenge: account key, CSR, order, challengeCreateFn
GcAcmeOrder(t, ok) ==
  /\ microtasks = <<>>
  /\ tasks[t].pc = "acme"
  /\ IF ok
     THEN /\ challengeTokens' = challengeCreateFn(challengeTokens, TokenOf(t), KeyAuthOf(t))
          /\ Goto(t, tasks[t], "challenge")
     ELSE /\ UNCHANGED challengeTokens
          /\ Goto(t, [tasks[t] EXCEPT !.acmeFailed = TRUE], "selfsign")
  /\ UNCHANGED <<options, proxyVars, httpVars, now, disk, serverVars,
                 certsDir, lifeVars, toolVars>>

\* the challenge is validated or abandoned (challengeRemoveFn), the order is finalized
GcAcmeChallengeEnd(t, ok) ==
  /\ microtasks = <<>>
  /\ tasks[t].pc = "challenge"
  /\ challengeTokens' = challengeRemoveFn(challengeTokens, TokenOf(t))
  /\ IF ok THEN Goto(t, tasks[t], "save")
     ELSE Goto(t, [tasks[t] EXCEPT !.acmeFailed = TRUE], "selfsign")
  /\ UNCHANGED <<options, proxyVars, httpVars, now, disk, serverVars,
                 certsDir, lifeVars, toolVars>>

\* obtainCert: mkdir(certDir, recursive), write key/cert/chain, then meta.json
\* with expiresAt = now + 90 days.  The three writes run in parallel under
\* Promise.all, which rejects with the first failure: with outcome "oneFails"
\* the key write has failed and the other two are still in flight (lateWrites)
GcAcmeSave(t, outcome) ==
  /\ microtasks = <<>>
  /\ tasks[t].pc = "save"
  /\ LET task == tasks[t]
         m == Material("acme", t)
         files == [disk[task.hostname] EXCEPT !.key = m, !.cert = m, !.chain = m]
     IN  CASE outcome = "ok" ->
                /\ disk' = [disk EXCEPT ![task.hostname] =
                              [files EXCEPT !.meta = CertMeta(now, AcmeDays, task.hostname)]]
                /\ Resolve(t, [key |-> m, cert |-> m, chain |-> m, selfSigned |-> FALSE],
                           [task EXCEPT !.savedAt = now])
           [] outcome = "writeFails" ->
                /\ UNCHANGED disk
                /\ Goto(t, [task EXCEPT !.acmeFailed = TRUE], "selfsign")
           [] outcome = "metaFails" ->
                /\ disk' = [disk EXCEPT ![task.hostname] = files]
                /\ Goto(t, [task EXCEPT !.acmeFailed = TRUE], "selfsign")
           [] outcome = "oneFails" ->
                /\ UNCHANGED disk
                /\ Goto(t, [task EXCEPT !.acmeFailed = TRUE, !.lateWrites = {"cert", "chain"}],
                        "selfsign")
  /\ certsDir' = IF outcome = "writeFails" THEN certsDir ELSE [certsDir EXCEPT !.exists = TRUE]
  /\ UNCHANGED <<options, proxyVars, httpVars, challengeTokens, now, serverVars,
                 lifeVars, toolVars>>

\* a write that obtainCert started and no longer awaits reaches the disk
GcAcmeLateWrite(t, f) ==
  /\ microtasks = <<>>
  /\ f \in tasks[t].lateWrites
  /\ tasks' = [tasks EXCEPT ![t].lateWrites = @ \ {f}]
  /\ disk' = [disk EXCEPT ![tasks[t].hostname][f] = Material("acme", t)]
  /\ UNCHANGED <<options, proxyVars, httpVars, challengeTokens, now, microtasks, serverVars,
                 certsDir, lifeVars, toolVars>>

\* generateSelfSigned: openssl writes key and cert, then chain, then meta.json
\* with expiresAt = now + 365 days; nothing in it is caught.  It fails before
\* anything is written, or after the PEM files and before meta.json
GcSelfSigned(t, outcome) ==
  /\ microtasks = <<>>
  /\ tasks[t].pc = "selfsign"
  /\ LET task == [tasks[t] EXCEPT !.selfSignedRuns = @ + 1]
         m == Material("self", t)
         dir == disk[task.hostname]
     IN  CASE outcome = "ok" ->
                /\ disk' = [disk EXCEPT ![task.hostname] =
                              [meta |-> CertMeta(now, SelfSignedDays, task.hostname),
                               key |-> m, cert |-> m, chain |-> m]]
                /\ Resolve(t, [key |-> m, cert |-> m, chain |-> m, selfSigned |-> TRUE],
                           [task EXCEPT !.savedAt = now])
           [] outcome = "opensslFails" ->
                /\ UNCHANGED disk
                /\ Reject(t, task)
           [] outcome = "metaFails" ->
                /\ disk' = [disk EXCEPT ![task.hostname] =
                              [dir EXCEPT !.key = m, !.cert = m, !.chain = m]]
                /\ Reject(t, task)
  /\ certsDir' = IF outcome = "opensslFails" THEN certsDir ELSE [certsDir EXCEPT !.exists = TRUE]
  /\ UNCHANGED <<options, proxyVars, httpVars, challengeTokens, now, serverVars,
                 lifeVars, toolVars>>

\* a day passes
Tick ==
  /\ microtasks = <<>>
  /\ now < MaxNow
  /\ now' = now + 1
  /\ UNCHANGED <<options, proxyVars, httpVars, challengeTokens, disk, tasks, microtasks, serverVars,
                 certsDir, lifeVars, toolVars>>

GetCertificateStep ==
  \E t \in 1..Len(tasks) :
    \/ \E dirsOk \in BOOLEAN : GcCheck(t, dirsOk)
    \/ \E readOk \in BOOLEAN : GcLoad(t, readOk)
    \/ \E ok \in BOOLEAN : GcAcmeOrder(t, ok)
    \/ \E ok \in BOOLEAN : GcAcmeChallengeEnd(t, ok)
    \/ \E outcome \in {"ok", "writeFails", "metaFails"} : GcAcmeSave(t, outcome)
    \/ \E outcome \in {"ok", "opensslFails", "metaFails"} : GcSelfSigned(t, outcome)

\* ------------------------------------------- server.ts: certificate cache
CacheHas(cache, hostname) == \E i \in 1..Len(cache) : cache[i].hostname = hostname

CacheGet(cache, hostname) ==
  cache[CHOOSE i \in 1..Len(cache) : cache[i].hostname = hostname].cert

\* variant: certCache.set stores nothing
CacheSet_Noop(cache, hostname, cert) == cache

\* Map.set keeps the position of an existing key
CacheSet(cache, hostname, cert) ==
  IF CacheHas(cache, hostname)
  THEN [i \in 1..Len(cache) |->
          IF cache[i].hostname = hostname THEN [hostname |-> hostname, cert |-> cert]
          ELSE cache[i]]
  ELSE Append(cache, [hostname |-> hostname, cert |-> cert])

\* variant: an in-flight acquisition is never joined
JoinsPending_Never(pending, hostname) == FALSE

\* getOrProvisionCert: certPending.has(hostname)
JoinsPending(pending, hostname) == hostname \in DOMAIN pending

DefaultHostname == makeHostname(<<"p", "o", "r", "t", "e", "r", "m", "a", "n">>, DashedIp)

\* ------------------------------------------------- server.ts: startServer
SrvIdle == [pc |-> "init", i |-> 1, await |-> 0, error |-> "none"]

\* variant: --name with several ports is let through
OptionsValid_NoNameCheck(opts) ==
  /\ \A i \in 1..Len(opts.ports) : isValidPort(opts.ports[i])
  /\ AuthOptionValid(opts)

OptionsValid(opts) ==
  /\ \A i \in 1..Len(opts.ports) : isValidPort(opts.ports[i])
  /\ ~(HasName(opts) /\ Len(opts.ports) > 1)
  /\ AuthOptionValid(opts)

\* validate the options, detect the IP, check that the ports are free
StartValidate(httpsFree, httpFree) ==
  /\ microtasks = <<>>
  /\ srv.pc = "init"
  /\ srv' = IF ~OptionsValid(options) \/ (~options.noSsl /\ ~httpsFree) \/ ~httpFree
            THEN [srv EXCEPT !.pc = "failed", !.error = "config"]
            ELSE [srv EXCEPT !.pc = "checked"]
  /\ UNCHANGED <<options, proxyVars, httpVars, challengeTokens, certVars, httpListening,
                 httpsListening, certCache, certPending, defaultCert, handshakes,
                 lifeVars, toolVars>>

\* httpServer.listen(httpPort), awaited
StartListenHttp(ok) ==
  /\ microtasks = <<>>
  /\ srv.pc = "checked"
  /\ IF ok
     THEN httpListening' = TRUE /\ srv' = [srv EXCEPT !.pc = "httpBound"]
     ELSE httpListening' = FALSE /\ srv' = [srv EXCEPT !.pc = "failed", !.error = "listen"]
  /\ UNCHANGED <<options, proxyVars, httpVars, challengeTokens, certVars,
                 httpsListening, certCache, certPending, defaultCert, handshakes,
                 lifeVars, toolVars>>

\* plaintext-only mode: no certificate, no TLS listener
StartNoSsl ==
  /\ microtasks = <<>>
  /\ srv.pc = "httpBound"
  /\ options.noSsl
  /\ srv' = [srv EXCEPT !.pc = "running"]
  /\ pidFile' = TRUE
  /\ certsDir' = [certsDir EXCEPT !.exists = TRUE]
  /\ UNCHANGED <<options, proxyVars, httpVars, challengeTokens, now, disk, tasks, microtasks,
                 httpListening, httpsListening, certCache, certPending, defaultCert,
                 handshakes, closing, inflight, toolVars>>

\* variant: certificates are provisioned as soon as the ports were checked
ProvisioningMayStart_BeforeListen == srv.pc \in {"checked", "httpBound"}

\* the route loop is entered after the awaited listen
ProvisioningMayStart == srv.pc = "httpBound"

\* for (const route of routes) await getOrProvisionCert(route.hostname)
StartProvisionRoute ==
  /\ microtasks = <<>>
  /\ ProvisioningMayStart
  /\ ~options.noSsl
  /\ srv.i <= Len(options.ports)
  /\ LET hostname == routes(options)[srv.i].hostname
     IN  IF CacheHas(certCache, hostname)
         THEN /\ srv' = [srv EXCEPT !.i = @ + 1, !.pc = "httpBound"]
              /\ UNCHANGED <<tasks, certPending>>
         ELSE IF JoinsPending(certPending, hostname)
         THEN /\ srv' = [srv EXCEPT !.pc = "awaitRoute", !.await = certPending[hostname]]
              /\ UNCHANGED <<tasks, certPending>>
         ELSE /\ Len(tasks) < MaxTasks
              /\ tasks' = Append(tasks, NewTask(hostname, FALSE, "provision"))
              /\ certPending' = MapSet(certPending, hostname, Len(tasks) + 1)
              /\ srv' = [srv EXCEPT !.pc = "awaitRoute", !.await = Len(tasks) + 1]
  /\ UNCHANGED <<options, proxyVars, httpVars, challengeTokens, now, disk, microtasks,
                 httpListening, httpsListening, certCache, defaultCert, handshakes,
                 certsDir, lifeVars, toolVars>>

\* the default certificate: the first cached one, else getCertificate(defaultHostname)
StartDefaultCert ==
  /\ microtasks = <<>>
  /\ ProvisioningMayStart
  /\ ~options.noSsl
  /\ srv.i > Len(options.ports)
  /\ IF Len(certCache) > 0
     THEN /\ defaultCert' = certCache[1].cert
          /\ srv' = [srv EXCEPT !.pc = "certsReady"]
          /\ UNCHANGED tasks
     ELSE /\ Len(tasks) < MaxTasks
          /\ tasks' = Append(tasks, NewTask(DefaultHostname, FALSE, "direct"))
          /\ srv' = [srv EXCEPT !.pc = "awaitDefault", !.await = Len(tasks) + 1]
          /\ UNCHANGED defaultCert
  /\ UNCHANGED <<options, proxyVars, httpVars, challengeTokens, now, disk, microtasks,
                 httpListening, httpsListening, certCache, certPending, handshakes,
                 certsDir, lifeVars, toolVars>>

\* createHttpsServer({ SNICallback }) and httpsServer.listen(httpsPort), awaited
StartListenHttps(ok) ==
  /\ microtasks = <<>>
  /\ srv.pc = "certsReady"
  /\ pidFile' = ok
  /\ certsDir' = IF ok THEN [certsDir EXCEPT !.exists = TRUE] ELSE certsDir
  /\ IF ok
     THEN httpsListening' = TRUE /\ srv' = [srv EXCEPT !.pc = "running"]
     ELSE httpsListening' = FALSE /\ srv' = [srv EXCEPT !.pc = "failed", !.error = "httpsListen"]
  /\ UNCHANGED <<options, proxyVars, httpVars, challengeTokens, now, disk, tasks, microtasks,
                 httpListening, certCache, certPending, defaultCert, handshakes,
                 closing, inflight, toolVars>>

\* --------------------------------------------------- server.ts: sniCallback
\* callbacks counts the calls of the handshake callback, err is its first
\* argument ("none" before the call, "null" for callback(null, ctx)), at is the
\* day of the handshake
NewHandshake(name, task, st, ctx) ==
  [name |-> name, task |-> task, st |-> st, ctx |-> ctx, outcome |-> "none", at |-> now,
   callbacks |-> IF st = "done" THEN 1 ELSE 0,
   err |-> IF st = "done" THEN "null" ELSE "none"]

Sni(servername) ==
  /\ microtasks = <<>>
  /\ httpsListening
  /\ Len(handshakes) < MaxHandshakes
  /\ IF CacheHas(certCache, servername)
     THEN /\ handshakes' = Append(handshakes,
                 [NewHandshake(servername, 0, "done", CacheGet(certCache, servername))
                    EXCEPT !.outcome = "cached"])
          /\ UNCHANGED <<tasks, certPending>>
     ELSE IF JoinsPending(certPending, servername)
     THEN /\ handshakes' = Append(handshakes,
                 NewHandshake(servername, certPending[servername], "wait", NoResult))
          /\ UNCHANGED <<tasks, certPending>>
     ELSE /\ Len(tasks) < MaxTasks
          /\ tasks' = Append(tasks, NewTask(servername, FALSE, "provision"))
          /\ certPending' = MapSet(certPending, servername, Len(tasks) + 1)
          /\ handshakes' = Append(handshakes,
                 NewHandshake(servername, Len(tasks) + 1, "wait", NoResult))
  /\ UNCHANGED <<options, proxyVars, httpVars, challengeTokens, now, disk, microtasks,
                 srv, httpListening, httpsListening, certCache, defaultCert,
                 certsDir, lifeVars, toolVars>>

\* ------------------------------------------------------ promise reactions
\* variant: only the handshake that started the provisioning is notified
Waiters_FirstOnly(t) ==
  (IF srv.await = t /\ srv.pc \in {"awaitRoute", "awaitDefault"}
   THEN <<[kind |-> "resume", id |-> t]>> ELSE <<>>)
  \o (IF \E i \in 1..Len(handshakes) : handshakes[i].task = t /\ handshakes[i].st = "wait"
      THEN <<[kind |-> "sni",
              id |-> CHOOSE i \in 1..Len(handshakes) :
                       /\ handshakes[i].task = t /\ handshakes[i].st = "wait"
                       /\ \A j \in 1..(i - 1) : ~(handshakes[j].task = t /\ handshakes[j].st = "wait")]>>
      ELSE <<>>)

\* who awaits the promise of call t, in the order the reactions were registered
Waiters(t) ==
  (IF srv.await = t /\ srv.pc \in {"awaitRoute", "awaitDefault"}
   THEN <<[kind |-> "resume", id |-> t]>> ELSE <<>>)
  \o [k \in 1..Cardinality({i \in 1..Len(handshakes) :
                              handshakes[i].task = t /\ handshakes[i].st = "wait"}) |->
        [kind |-> "sni",
         id |-> CHOOSE i \in 1..Len(handshakes) :
                  /\ handshakes[i].task = t /\ handshakes[i].st = "wait"
                  /\ Cardinality({j \in 1..i : handshakes[j].task = t
                                                /\ handshakes[j].st = "wait"}) = k]]

\* variant: the catch stores the default certificate under the failed hostname
RunSettled_CachesDefault ==
  /\ microtasks # <<>>
  /\ Head(microtasks).kind = "settled"
  /\ LET t == Head(microtasks).id
         task == tasks[t]
     IN  /\ IF task.via = "provision"
            THEN /\ certPending' = MapDelete(certPending, task.hostname)
                 /\ certCache' = IF task.pc = "resolved"
                                 THEN CacheSet(certCache, task.hostname, task.result)
                                 ELSE CacheSet(certCache, task.hostname, defaultCert)
            ELSE UNCHANGED <<certPending, certCache>>
         /\ microtasks' = Tail(microtasks) \o Waiters(t)
  /\ UNCHANGED <<options, proxyVars, httpVars, challengeTokens, now, disk, tasks,
                 srv, httpListening, httpsListening, defaultCert, handshakes,
                 certsDir, lifeVars, toolVars>>

\* the then/catch of getOrProvisionCert, run when getCertificate settles
RunSettled ==
  /\ microtasks # <<>>
  /\ Head(microtasks).kind = "settled"
  /\ LET t == Head(microtasks).id
         task == tasks[t]
     IN  /\ IF task.via = "provision"
            THEN /\ certPending' = MapDelete(certPending, task.hostname)
                 /\ certCache' = IF task.pc = "resolved"
                                 THEN CacheSet(certCache, task.hostname, task.result)
                                 ELSE certCache
            ELSE UNCHANGED <<certPending, certCache>>
         /\ microtasks' = Tail(microtasks) \o Waiters(t)
  /\ UNCHANGED <<options, proxyVars, httpVars, challengeTokens, now, disk, tasks,
                 srv, httpListening, httpsListening, defaultCert, handshakes,
                 certsDir, lifeVars, toolVars>>

\* startServer continues after its await
RunResume ==
  /\ microtasks # <<>>
  /\ Head(microtasks).kind = "resume"
  /\ LET task == tasks[Head(microtasks).id]
     IN  IF task.pc = "rejected"
         THEN /\ srv' = [srv EXCEPT !.pc = "failed", !.error = "provision", !.await = 0]
              /\ UNCHANGED <<certCache, defaultCert>>
         ELSE IF srv.pc = "awaitRoute"
         THEN /\ srv' = [srv EXCEPT !.pc = "httpBound", !.i = @ + 1, !.await = 0]
              /\ UNCHANGED <<certCache, defaultCert>>
         ELSE /\ srv' = [srv EXCEPT !.pc = "certsReady", !.await = 0]
              /\ defaultCert' = task.result
              /\ certCache' = CacheSet(certCache, DefaultHostname, task.result)
  /\ microtasks' = Tail(microtasks)
  /\ UNCHANGED <<options, proxyVars, httpVars, challengeTokens, now, disk, tasks,
                 httpListening, httpsListening, certPending, handshakes,
                 certsDir, lifeVars, toolVars>>

\* variant: a failed provisioning is passed on to the handshake callback
RunSniCallback_PassesError ==
  /\ microtasks # <<>>
  /\ Head(microtasks).kind = "sni"
  /\ LET i == Head(microtasks).id
         task == tasks[handshakes[i].task]
     IN  handshakes' = [handshakes EXCEPT ![i] =
           IF task.pc = "resolved"
           THEN [@ EXCEPT !.st = "done", !.ctx = task.result, !.outcome = "provisioned",
                          !.callbacks = @ + 1, !.err = "null"]
           ELSE [@ EXCEPT !.st = "done", !.ctx = NoResult, !.outcome = "default",
                          !.callbacks = @ + 1, !.err = "error"]]
  /\ microtasks' = Tail(microtasks)
  /\ UNCHANGED <<options, proxyVars, httpVars, challengeTokens, now, disk, tasks,
                 srv, httpListening, httpsListening, certCache, certPending, defaultCert,
                 certsDir, lifeVars, toolVars>>

\* the then/catch of sniCallback: the handshake callback is called
RunSniCallback ==
  /\ microtasks # <<>>
  /\ Head(microtasks).kind = "sni"
  /\ LET i == Head(microtasks).id
         task == tasks[handshakes[i].task]
     IN  handshakes' = [handshakes EXCEPT ![i] =
           IF task.pc = "resolved"
           THEN [@ EXCEPT !.st = "done", !.ctx = task.result, !.outcome = "provisioned",
                          !.callbacks = @ + 1, !.err = "null"]
           ELSE [@ EXCEPT !.st = "done", !.ctx = defaultCert, !.outcome = "default",
                          !.callbacks = @ + 1, !.err = "null"]]
  /\ microtasks' = Tail(microtasks)
  /\ UNCHANGED <<options, proxyVars, httpVars, challengeTokens, now, disk, tasks,
                 srv, httpListening, httpsListening, certCache, certPending, defaultCert,
                 certsDir, lifeVars, toolVars>>

\* ------------------------------------------------------ certs.ts: cleanCerts
\* variant: rm leaves the certificates and removes the private keys only
RemoveAll_KeysOnly(d) == [h \in DOMAIN d |-> [d[h] EXCEPT !.key = NoFile]]

\* rm(paths.certs, { recursive: true, force: true })
RemoveAll(d) == [h \in DOMAIN d |-> EmptyDir]

\* cleanCerts up to the end of rm: nothing is done, and the call returns, when
\* paths.certs does not exist.  certsDir.cleans counts the calls that returned
CleanCertsRm ==
  /\ microtasks = <<>>
  /\ certsDir.pc = "idle"
  /\ certsDir.cleans < MaxCleans
  /\ IF certsDir.exists
     THEN /\ disk' = RemoveAll(disk)
          /\ certsDir' = [certsDir EXCEPT !.exists = FALSE, !.pc = "mkdir"]
     ELSE /\ UNCHANGED disk
          /\ certsDir' = [certsDir EXCEPT !.cleans = @ + 1]
  /\ UNCHANGED <<options, proxyVars, httpVars, challengeTokens, now, tasks, microtasks,
                 serverVars, lifeVars, toolVars>>

\* mkdir(paths.certs, { recursive: true }), "All cached certificates removed"
CleanCertsMkdir ==
  /\ microtasks = <<>>
  /\ certsDir.pc = "mkdir"
  /\ certsDir' = [certsDir EXCEPT !.exists = TRUE, !.pc = "idle", !.cleans = @ + 1]
  /\ UNCHANGED <<options, proxyVars, httpVars, challengeTokens, now, disk, tasks, microtasks,
                 serverVars, lifeVars, toolVars>>

\* ------------------------------------------------------- server.ts: close
Listening(l) == IF l = "http" THEN httpListening ELSE httpsListening

\* a request of a client of the running server is being served
RequestBegins(l) ==
  /\ microtasks = <<>>
  /\ srv.pc = "running"
  /\ Listening(l)
  /\ inflight[l] < MaxInflight
  /\ inflight' = [inflight EXCEPT ![l] = @ + 1]
  /\ UNCHANGED <<options, proxyVars, httpVars, challengeTokens, certVars, serverVars,
                 pidFile, closing, toolVars>>

\* the request is answered (by the backend, or with 502 after the proxy timeout)
\* and its connection ends
RequestEnds(l) ==
  /\ microtasks = <<>>
  /\ inflight[l] > 0
  /\ inflight' = [inflight EXCEPT ![l] = @ - 1]
  /\ UNCHANGED <<options, proxyVars, httpVars, challengeTokens, certVars, serverVars,
                 pidFile, closing, toolVars>>

\* variant: close() destroys the open connections
InflightAfterClose_Destroyed ==
  [http |-> 0, https |-> 0, aborted |-> inflight.aborted + inflight.http + inflight.https]

\* close() calls proxy.close() and server.close() only: connections are left alone
InflightAfterClose == inflight

\* close(): proxyEngine.close(), then httpServer.close(cb) and, when there is a
\* TLS server, httpsServer.close(cb), all in one turn.  server.close(cb)
\* stops listening (once) and registers cb for the "close" event.  A call
\* records the requests open when it was made (open) and whether an earlier
\* call was still pending (overlap)
Close ==
  /\ microtasks = <<>>
  /\ srv.pc = "running"
  /\ Len(closing.calls) < MaxCloseCalls
  /\ LET id == Len(closing.calls) + 1
         tls == ~options.noSsl
     IN  closing' = [closing EXCEPT
            !.calls = Append(@, [st |-> "pending", http |-> FALSE, https |-> ~tls,
                                 open |-> inflight.http + inflight.https,
                                 overlap |-> \E c \in 1..Len(@) : @[c].st = "pending"]),
            !.proxyCloses = @ + 1,
            !.released = [http |-> @.http + (IF httpListening THEN 1 ELSE 0),
                          https |-> @.https + (IF tls /\ httpsListening THEN 1 ELSE 0)],
            !.waiting = [http |-> @.http \cup {id},
                         https |-> IF tls THEN @.https \cup {id} ELSE @.https]]
  /\ httpListening' = FALSE
  /\ httpsListening' = FALSE
  /\ inflight' = InflightAfterClose
  /\ UNCHANGED <<options, proxyVars, httpVars, challengeTokens, certVars, srv, certCache,
                 certPending, defaultCert, handshakes, pidFile, toolVars>>

\* variant: only the callback of the first close() call is run
CloseCallbacks_FirstOnly(l) ==
  {c \in closing.waiting[l] : \A other \in closing.waiting[l] : c <= other}

\* "close" is emitted to every callback registered by server.close(cb)
CloseCallbacks(l) == closing.waiting[l]

\* a listener that stopped listening has no connection left: it emits "close"
ListenerClosed(l) ==
  /\ microtasks = <<>>
  /\ closing.waiting[l] # {}
  /\ inflight[l] = 0
  /\ LET called == CloseCallbacks(l)
     IN  closing' = [closing EXCEPT
            !.waiting[l] = {},
            !.calls = [c \in 1..Len(@) |->
                         IF c \in called THEN [@[c] EXCEPT ![l] = TRUE] ELSE @[c]]]
  /\ UNCHANGED <<options, proxyVars, httpVars, challengeTokens, certVars, serverVars,
                 pidFile, inflight, toolVars>>

\* close() after await Promise.all: unlink(pidFile) inside try/catch, "Stopped"
CloseSettles(c, unlinkOk) ==
  /\ microtasks = <<>>
  /\ c \in 1..Len(closing.calls)
  /\ closing.calls[c].st = "pending"
  /\ closing.calls[c].http
  /\ closing.calls[c].https
  /\ unlinkOk => pidFile
  /\ pidFile' = IF unlinkOk THEN FALSE ELSE pidFile
  /\ closing' = [closing EXCEPT !.calls[c].st = "resolved",
                                !.unlinks = @ + (IF unlinkOk THEN 1 ELSE 0)]
  /\ UNCHANGED <<options, proxyVars, httpVars, challengeTokens, certVars, serverVars,
                 inflight, toolVars>>

\* ----------------------------------- a sequential caller of getCertificate
\* getCertificate(hostname, { forceRenew }) once the previous call has settled
CallGetCertificate(hostname, forceRenew) ==
  /\ microtasks = <<>>
  /\ srv.pc = "init"
  /\ Len(tasks) < MaxCalls
  /\ \A t \in 1..Len(tasks) : Settled(t)
  /\ tasks' = Append(tasks, NewTask(hostname, forceRenew, "caller"))
  /\ UNCHANGED <<options, proxyVars, httpVars, challengeTokens, now, disk, microtasks, serverVars,
                 certsDir, lifeVars, toolVars>>

\* ------------------------------------------------------- inputs of the engine
PortChoices == {8, 3000}
NameChoices == {Undefined, <<"a">>, <<"8">>}
PortLists == {<<>>} \cup {<<p>> : p \in PortChoices}
               \cup {<<p, q>> : p \in PortChoices, q \in PortChoices}

ShortAlphabet == {"8", "a", "-", ":", "."}
RECURSIVE SeqsUpTo(_, _)
SeqsUpTo(S, n) ==
  IF n = 0 THEN {<<>>}
  ELSE LET shorter == SeqsUpTo(S, n - 1)
       IN  shorter \cup {Append(s, c) : s \in shorter, c \in S}

\* hosts of the form {N}-{a}-{b}-{c}-{d}.sslip.io[:port]; tok remembers N
RECURSIVE Pow10(_)
Pow10(n) == IF n = 0 THEN 1 ELSE 10 * Pow10(n - 1)
TokenValues == 0..(Pow10(MaxDigits) - 1) \cup PortChoices \cup {65536}
ZeroPads == {<<>>, <<"0">>}
OtherIps == {DashedIp, <<"1", "0", "-", "2", "0", "-", "3", "0", "-", "4", "0">>}
PortSuffixes == {<<>>, <<":", "4", "4", "3">>}

SslipHost(tok, ip, sfx) == makeHostname(tok, ip) \o sfx

UnknownHost == <<"u", "n", "k", "n", "o", "w", "n", ".", "e", "x", "a", "m", "p", "l", "e", ".", "c", "o", "m">>

NumericHostInputs ==
  {[host |-> SslipHost(pad \o NumToStr(n), ip, sfx), tok |-> n] :
     n \in TokenValues, pad \in ZeroPads, ip \in OtherIps, sfx \in PortSuffixes}

NonNumericTokens == {<<"a">>, <<"8", "a">>, <<"a", "8">>}

OtherHostInputs ==
  {[host |-> h, tok |-> Null] :
     h \in SeqsUpTo(ShortAlphabet, MaxShortLen)
             \cup {SslipHost(t, ip, sfx) : t \in NonNumericTokens, ip \in OtherIps, sfx \in PortSuffixes}
             \cup {UnknownHost, UnknownHost \o <<":", "8">>}}

HostInputs == NumericHostInputs \cup OtherHostInputs

NoCall == [op |-> "none", host |-> Undefined, tok |-> Null, port |-> Null,
           status |-> 0, target |-> Null, ret |-> FALSE]

DefaultOptions == [ports |-> <<>>, name |-> Undefined, noSsl |-> FALSE, httpsPort |-> 443,
                   auth |-> Undefined, ipAllow |-> UndefinedSet]

\* ----------------------------------------- certificate manager: behaviours
CertHosts == {makeHostname(NumToStr(3000), DashedIp), makeHostname(NumToStr(8), DashedIp),
              makeHostname(<<"a">>, DashedIp), DefaultHostname, UnknownHost}

\* what an earlier run of the program can have left for a hostname
OldDirs(hostname) ==
  LET old == Material("acme", 0)
      full == [meta |-> NoMeta, key |-> old, cert |-> old, chain |-> old]
  IN  {[full EXCEPT !.meta = CertMeta(ReuseDays + d - AcmeDays, AcmeDays, hostname)] : d \in {0, 1}}
        \cup {[full EXCEPT !.meta = CorruptMeta],
              [full EXCEPT !.meta = CertMeta(ReuseDays + 1 - AcmeDays, AcmeDays, hostname),
                           !.key = NoFile]}

EmptyDisk == [h \in CertHosts |-> EmptyDir]

\* paths.certs does not exist before the first ensureDirs
NoCertsDir == [exists |-> FALSE, cleans |-> 0, pc |-> "idle"]

DiskInits(hosts) ==
  {EmptyDisk} \cup UNION {{[EmptyDisk EXCEPT ![h] = dir] : dir \in OldDirs(h)} : h \in hosts}

InitCertIdle ==
  /\ now = 0
  /\ disk = EmptyDisk
  /\ tasks = <<>>
  /\ microtasks = <<>>
  /\ certsDir = NoCertsDir

\* no close() call yet; released counts the listening handles given back,
\* waiting holds the close() calls whose callback awaits a listener's "close"
NoClosing == [calls |-> <<>>, proxyCloses |-> 0, unlinks |-> 0,
              released |-> [http |-> 0, https |-> 0],
              waiting |-> [http |-> {}, https |-> {}]]

NoInflight == [http |-> 0, https |-> 0, aborted |-> 0]

InitServerIdle ==
  /\ srv = SrvIdle
  /\ httpListening = FALSE
  /\ httpsListening = FALSE
  /\ certCache = <<>>
  /\ certPending = EmptyMap
  /\ defaultCert = NoResult
  /\ handshakes = <<>>
  /\ pidFile = FALSE
  /\ closing = NoClosing
  /\ inflight = NoInflight
  /\ envFile = EnvOff
  /\ settings = SettingsOff
  /\ accountKeyFile = NoKey
  /\ tunnels = TunnelsOff

\* server names clients present: a cached one, a routable one, an unroutable one
SniNames(opts) ==
  {makeHostname(NumToStr(8), DashedIp), UnknownHost}
    \cup (IF isDynamic(opts) THEN {DefaultHostname}
          ELSE {routes(opts)[i].hostname : i \in 1..Len(opts.ports)})

Init ==
  /\ options \in {[DefaultOptions EXCEPT !.ports = ps, !.noSsl = ns] :
                    ps \in {<<>>, <<3000>>}, ns \in BOOLEAN}
  /\ proxyCall = NoCall
  /\ challengeTokens = EmptyMap
  /\ httpCall = [op |-> "none"]
  /\ now = 0
  /\ disk \in {EmptyDisk,
               [EmptyDisk EXCEPT ![UnknownHost] =
                  [meta |-> CertMeta(0, AcmeDays, UnknownHost), key |-> Material("acme", 0),
                   cert |-> Material("acme", 0), chain |-> Material("acme", 0)]]}
  /\ tasks = <<>>
  /\ microtasks = <<>>
  /\ certsDir = [NoCertsDir EXCEPT !.exists = (disk # EmptyDisk)]
  /\ InitServerIdle

Next ==
  \/ \E httpsFree \in BOOLEAN, httpFree \in BOOLEAN : StartValidate(httpsFree, httpFree)
  \/ \E ok \in BOOLEAN : StartListenHttp(ok)
  \/ StartNoSsl
  \/ StartProvisionRoute
  \/ StartDefaultCert
  \/ \E ok \in BOOLEAN : StartListenHttps(ok)
  \/ \E servername \in SniNames(options) : Sni(servername)
  \/ GetCertificateStep
  \/ RunSettled
  \/ RunResume
  \/ RunSniCallback

Spec == Init /\ [][Next]_vars

\* every awaited operation of getCertificate completes or fails, and the event
\* loop runs the queued promise reactions
SpecLive ==
  /\ Init
  /\ [][Next]_vars
  /\ WF_vars(GetCertificateStep)
  /\ WF_vars(RunSettled)
  /\ WF_vars(RunResume)
  /\ WF_vars(RunSniCallback)

InitGetCert ==
  /\ options = DefaultOptions
  /\ proxyCall = NoCall
  /\ challengeTokens = EmptyMap
  /\ httpCall = [op |-> "none"]
  /\ now = 0
  /\ disk \in DiskInits({UnknownHost})
  /\ tasks = <<>>
  /\ microtasks = <<>>
  /\ certsDir = [NoCertsDir EXCEPT !.exists = (disk # EmptyDisk)]
  /\ InitServerIdle

NextGetCert ==
  \/ \E h \in {UnknownHost}, forceRenew \in BOOLEAN : CallGetCertificate(h, forceRenew)
  \/ GetCertificateStep
  \/ RunSettled
  \/ Tick

SpecGetCert == InitGetCert /\ [][NextGetCert]_vars

\* a server with one static route whose certificate may be stored already,
\* and getAccountKey taken await by await
InitAccountKey ==
  /\ options = [DefaultOptions EXCEPT !.ports = <<3000>>]
  /\ proxyCall = NoCall
  /\ challengeTokens = EmptyMap
  /\ httpCall = [op |-> "none"]
  /\ now = 0
  /\ disk \in {EmptyDisk,
                [EmptyDisk EXCEPT ![routes(options)[1].hostname] =
                   [meta |-> CertMeta(0, AcmeDays, routes(options)[1].hostname),
                    key |-> Material("acme", 0), cert |-> Material("acme", 0),
                    chain |-> Material("acme", 0)]]}
  /\ tasks = <<>>
  /\ microtasks = <<>>
  /\ certsDir = [NoCertsDir EXCEPT !.exists = (disk # EmptyDisk)]
  /\ InitServerIdle

\* getCertificate with obtainCert waiting for getAccountKey before its order
GetCertificateKeyStep ==
  \E t \in 1..Len(tasks) :
    \/ GcCheck(t, TRUE)
    \/ GcLoad(t, TRUE)
    \/ GcGetAccountKey(t)
    \/ GcCreateAccountKey(t)
    \/ \E ok \in BOOLEAN : tasks[t].accountKey # NoKey /\ GcAcmeOrder(t, ok)
    \/ \E ok \in BOOLEAN : GcAcmeChallengeEnd(t, ok)
    \/ GcAcmeSave(t, "ok")
    \/ GcSelfSigned(t, "ok")

NextAccountKey ==
  \/ StartValidate(TRUE, TRUE)
  \/ StartListenHttp(TRUE)
  \/ StartProvisionRoute
  \/ StartDefaultCert
  \/ StartListenHttps(TRUE)
  \/ \E servername \in {makeHostname(NumToStr(8), DashedIp), UnknownHost} : Sni(servername)
  \/ GetCertificateKeyStep
  \/ RunSettled
  \/ RunResume
  \/ RunSniCallback

SpecAccountKey == InitAccountKey /\ [][NextAccountKey]_vars

\* a server with one static route, and the parallel writes of obtainCert
\* taken one by one
InitWriters ==
  /\ options = [DefaultOptions EXCEPT !.ports = <<3000>>]
  /\ proxyCall = NoCall
  /\ challengeTokens = EmptyMap
  /\ httpCall = [op |-> "none"]
  /\ now = 0
  /\ disk = EmptyDisk
  /\ tasks = <<>>
  /\ microtasks = <<>>
  /\ certsDir = NoCertsDir
  /\ InitServerIdle

NextWriters ==
  \/ StartValidate(TRUE, TRUE)
  \/ StartListenHttp(TRUE)
  \/ StartProvisionRoute
  \/ StartDefaultCert
  \/ StartListenHttps(TRUE)
  \/ Sni(UnknownHost)
  \/ GetCertificateStep
  \/ \E t \in 1..Len(tasks) : GcAcmeSave(t, "oneFails")
  \/ \E t \in 1..Len(tasks), f \in {"cert", "chain"} : GcAcmeLateWrite(t, f)
  \/ RunSettled
  \/ RunResume
  \/ RunSniCallback

SpecWriters == InitWriters /\ [][NextWriters]_vars

\* -------------------------------------------- inputs of the plaintext listener
Token1 == <<"t", "1">>
Token2 == <<"t", "2">>
Tokens == {Token1, Token2}
\* token "." thumbprint of the account key
KeyAuthorizations(token) == {token \o <<".", "x">>, token \o <<".", "y">>}

UrlInputs ==
  {Undefined, <<"/">>, <<"/", "a">>, AcmePrefix, SubSeq(AcmePrefix, 1, Len(AcmePrefix) - 1),
   <<"/", "a">> \o AcmePrefix \o Token1, AcmePrefix \o <<"t", "3">>}
    \cup {AcmePrefix \o t : t \in Tokens}
    \cup {AcmePrefix \o t \o <<"?", "q">> : t \in Tokens}

IpA == <<"7", ".", "7">>
IpB == <<"9", ".", "9">>
AuthOption == <<"u", ":", "p">>

RequestInputs ==
  [url : UrlInputs,
   host : {Undefined, SslipHost(NumToStr(3000), DashedIp, <<>>),
           SslipHost(NumToStr(3000), DashedIp, <<":", "8">>), UnknownHost},
   xff : {Undefined, IpA \o <<",", " ">> \o IpB},
   remoteAddress : {IpB, Ipv6Mapped \o IpA},
   authorization : {UndefinedRec, [scheme |-> BasicScheme, decoded |-> AuthOption],
                    [scheme |-> BasicScheme, decoded |-> <<"u", ":", "q">>]}]

\* ------------------------------------------- plaintext listener: behaviours
InitHttp ==
  /\ options \in {[DefaultOptions EXCEPT !.ports = ps, !.noSsl = ns, !.httpsPort = hp,
                                         !.auth = au, !.ipAllow = ips] :
                    ps \in {<<>>, <<3000>>}, ns \in BOOLEAN, hp \in {443, 8443},
                    au \in {Undefined, AuthOption}, ips \in {UndefinedSet, {IpA}}}
  /\ proxyCall = NoCall
  /\ challengeTokens = EmptyMap
  /\ httpCall = [op |-> "none"]
  /\ InitCertIdle
  /\ InitServerIdle

\* the ACME client issues a challenge during an order
ChallengeIssued(token, ka) ==
  /\ httpCall.op = "none"
  /\ challengeTokens' = challengeCreateFn(challengeTokens, token, ka)
  /\ UNCHANGED <<options, proxyVars, httpCall, certVars, serverVars,
                 lifeVars, toolVars>>

\* the ACME client is done with a challenge (validated or abandoned)
ChallengeDone(token) ==
  /\ httpCall.op = "none"
  /\ token \in DOMAIN challengeTokens
  /\ challengeTokens' = challengeRemoveFn(challengeTokens, token)
  /\ UNCHANGED <<options, proxyVars, httpCall, certVars, serverVars,
                 lifeVars, toolVars>>

\* a request arrives on the plaintext listener; the handler runs to completion
HttpRequest(req) ==
  /\ httpCall.op = "none"
  /\ httpCall' = [op |-> "request", req |-> req,
                  acme |-> IF req.url \in {Undefined, <<>>}
                           THEN [value |-> NullStr, consulted |-> FALSE]
                           ELSE handleAcmeChallenge(challengeTokens, req.url),
                  res |-> httpRequestHandler(options, challengeTokens, req)]
  /\ UNCHANGED <<options, proxyVars, challengeTokens, certVars, serverVars,
                 lifeVars, toolVars>>

HttpReturn ==
  /\ httpCall.op # "none"
  /\ httpCall' = [op |-> "none"]
  /\ UNCHANGED <<options, proxyVars, challengeTokens, certVars, serverVars,
                 lifeVars, toolVars>>

\* requests and upgrades that are not challenge probes
TlsRequestInputs == {req \in RequestInputs : req.url = <<"/">>}

\* a request arrives on the TLS listener
HttpsRequest(req) ==
  /\ httpCall.op = "none"
  /\ ~options.noSsl
  /\ httpCall' = [op |-> "tlsRequest", req |-> req,
                  acme |-> [value |-> NullStr, consulted |-> FALSE],
                  res |-> httpsRequestHandler(options, req)]
  /\ UNCHANGED <<options, proxyVars, challengeTokens, certVars, serverVars,
                 lifeVars, toolVars>>

\* a WebSocket upgrade arrives on the TLS listener
HttpsUpgrade(req) ==
  /\ httpCall.op = "none"
  /\ ~options.noSsl
  /\ httpCall' = [op |-> "tlsUpgrade", req |-> req,
                  acme |-> [value |-> NullStr, consulted |-> FALSE],
                  res |-> upgradeHandler(options, req)]
  /\ UNCHANGED <<options, proxyVars, challengeTokens, certVars, serverVars,
                 lifeVars, toolVars>>

\* a WebSocket upgrade arrives on the plaintext listener, which has an
\* "upgrade" listener in no-TLS mode only
HttpUpgrade(req) ==
  /\ httpCall.op = "none"
  /\ httpCall' = [op |-> "upgrade", req |-> req,
                  acme |-> [value |-> NullStr, consulted |-> FALSE],
                  res |-> IF options.noSsl THEN upgradeHandler(options, req) ELSE NoResponse]
  /\ UNCHANGED <<options, proxyVars, challengeTokens, certVars, serverVars,
                 lifeVars, toolVars>>

NextHttp ==
  \/ \E t \in Tokens : \E ka \in KeyAuthorizations(t) : ChallengeIssued(t, ka)
  \/ \E t \in Tokens : ChallengeDone(t)
  \/ \E req \in RequestInputs : HttpRequest(req)
  \/ \E req \in TlsRequestInputs : HttpsRequest(req)
  \/ \E req \in TlsRequestInputs : HttpsUpgrade(req)
  \/ \E req \in TlsRequestInputs : HttpUpgrade(req)
  \/ HttpReturn

SpecHttp == InitHttp /\ [][NextHttp]_vars

\* ----------------------------------------- a server that runs for days
\* one static route whose hostname may have a certificate from an earlier run
InitRenew ==
  /\ options = [DefaultOptions EXCEPT !.ports = <<3000>>]
  /\ proxyCall = NoCall
  /\ challengeTokens = EmptyMap
  /\ httpCall = [op |-> "none"]
  /\ now = 0
  /\ disk \in DiskInits({routes(options)[1].hostname})
  /\ tasks = <<>>
  /\ microtasks = <<>>
  /\ certsDir = [NoCertsDir EXCEPT !.exists = (disk # EmptyDisk)]
  /\ InitServerIdle

NextRenew ==
  \/ \E httpsFree \in BOOLEAN, httpFree \in BOOLEAN : StartValidate(httpsFree, httpFree)
  \/ \E ok \in BOOLEAN : StartListenHttp(ok)
  \/ StartProvisionRoute
  \/ StartDefaultCert
  \/ \E ok \in BOOLEAN : StartListenHttps(ok)
  \/ \E servername \in {routes(options)[1].hostname, UnknownHost} : Sni(servername)
  \/ GetCertificateStep
  \/ RunSettled
  \/ RunResume
  \/ RunSniCallback
  \/ Tick

SpecRenew == InitRenew /\ [][NextRenew]_vars

\* ----------------------------------------------------- env file: behaviours
\* every text of at most MaxPieces pieces: a newline, a character, a marker
EnvContents ==
  LET RECURSIVE Flatten(_)
      Flatten(ps) == IF ps = <<>> THEN <<>> ELSE Head(ps) \o Flatten(Tail(ps))
  IN  {Flatten(ps) : ps \in SeqsUpTo({<<NL>>, <<"A">>, MARKER_START, MARKER_END}, MaxPieces)}

\* the env target file of a settings config, and the variables it sets
SettingsContents == SeqsUpTo({"A", "=", "\"", " ", NL}, MaxEnvLen)

SettingsVariables ==
  LET A == [key |-> <<"A">>, value |-> <<"u">>]
      K == [key |-> <<"K">>, value |-> <<"u">>]
  IN  {<<A>>, <<K>>, <<K, A>>}

\* settings mode over several sessions of the expose process
SessionContents ==
  {c \in SettingsContents : Len(c) < MaxEnvLen}
    \cup {<<"A", "=", "\"", "A", "\"">>, <<"A", "=", "\"", " ", "\"">>}

InitSession ==
  /\ options = DefaultOptions
  /\ proxyCall = NoCall
  /\ challengeTokens = EmptyMap
  /\ httpCall = [op |-> "none"]
  /\ InitCertIdle
  /\ srv = SrvIdle
  /\ httpListening = FALSE
  /\ httpsListening = FALSE
  /\ certCache = <<>>
  /\ certPending = EmptyMap
  /\ defaultCert = NoResult
  /\ handshakes = <<>>
  /\ pidFile = FALSE
  /\ closing = NoClosing
  /\ inflight = NoInflight
  /\ accountKeyFile = NoKey
  /\ tunnels = TunnelsOff
  /\ envFile = EnvOff
  /\ \E file \in {NoFileContent} \cup
                  {[exists |-> TRUE, content |-> c] : c \in SessionContents},
        variables \in SettingsVariables :
       settings = [pc |-> "boot", file |-> file, original |-> file,
                   variables |-> variables, manifest |-> NoManifest,
                   backupFile |-> FALSE, backupCorrupt |-> FALSE, crashes |-> 0]

NextSession ==
  \/ Recover
  \/ CreateBackup
  \/ TunnelsFail
  \/ \E hasUrl \in BOOLEAN : ApplySettings(hasUrl)
  \/ RestoreFromBackup
  \/ Crash
  \/ CrashInWriteBackup
  \/ CrashInRestore

SpecSession == InitSession /\ [][NextSession]_vars

\* ------------------------------------------------- tunnels: behaviours
InitTunnels ==
  /\ options = DefaultOptions
  /\ proxyCall = NoCall
  /\ challengeTokens = EmptyMap
  /\ httpCall = [op |-> "none"]
  /\ InitCertIdle
  /\ InitServerIdle

NextTunnels ==
  \/ \E ports \in TunnelPortLists : StartTunnels(ports)
  \/ \E i \in 1..MaxTunnels : TunnelUrl(i)
  \/ \E i \in 1..MaxTunnels : \E dies \in BOOLEAN : TunnelError(i, dies)
  \/ \E i \in 1..MaxTunnels : TunnelTimeout(i)
  \/ StopTunnels

SpecTunnels == InitTunnels /\ [][NextTunnels]_vars

InitTools ==
  /\ options = DefaultOptions
  /\ proxyCall = NoCall
  /\ challengeTokens = EmptyMap
  /\ httpCall = [op |-> "none"]
  /\ InitCertIdle
  /\ srv = SrvIdle
  /\ httpListening = FALSE
  /\ httpsListening = FALSE
  /\ certCache = <<>>
  /\ certPending = EmptyMap
  /\ defaultCert = NoResult
  /\ handshakes = <<>>
  /\ pidFile = FALSE
  /\ closing = NoClosing
  /\ inflight = NoInflight
  /\ accountKeyFile = NoKey
  /\ tunnels = TunnelsOff
  /\ \/ /\ settings = SettingsOff
        /\ \E isDefault \in BOOLEAN,
              file \in {NoFileContent} \cup {[exists |-> TRUE, content |-> c] : c \in EnvContents} :
             envFile = [pc |-> "start", isDefault |-> isDefault, file |-> file, original |-> file,
                        block |-> <<>>]
     \/ /\ envFile = EnvOff
        /\ \E file \in {NoFileContent} \cup
                        {[exists |-> TRUE, content |-> c] : c \in SettingsContents},
              variables \in SettingsVariables :
             settings = [pc |-> "start", file |-> file, original |-> file,
                         variables |-> variables, manifest |-> NoManifest,
                         backupFile |-> FALSE]

NextTools ==
  \/ \E mappings \in {<<>>, <<[envVar |-> <<"V">>, url |-> <<"u">>]>>} : WriteEnvFile(mappings)
  \/ \E ok \in BOOLEAN : CleanEnvFile(ok)
  \/ CreateBackup
  \/ \E hasUrl \in BOOLEAN : ApplySettings(hasUrl)
  \/ RestoreFromBackup

SpecTools == InitTools /\ [][NextTools]_vars

\* ------------------------------------------------------ cleanCerts: behaviours
\* a first run, a storage root left empty by an earlier run, or a stored
\* certificate; the server is started and serves handshakes while
\* "porterman certs --clean" runs
InitClean ==
  /\ options \in {[DefaultOptions EXCEPT !.ports = ps, !.noSsl = ns] :
                    ps \in {<<>>, <<3000>>}, ns \in BOOLEAN}
  /\ proxyCall = NoCall
  /\ challengeTokens = EmptyMap
  /\ httpCall = [op |-> "none"]
  /\ now = 0
  /\ disk \in {EmptyDisk,
               [EmptyDisk EXCEPT ![UnknownHost] =
                  [meta |-> CertMeta(0, AcmeDays, UnknownHost), key |-> Material("acme", 0),
                   cert |-> Material("acme", 0), chain |-> Material("acme", 0)]]}
  /\ tasks = <<>>
  /\ microtasks = <<>>
  /\ certsDir \in {[NoCertsDir EXCEPT !.exists = e] : e \in {disk # EmptyDisk, TRUE}}
  /\ InitServerIdle

NextClean ==
  \/ \E httpsFree \in BOOLEAN, httpFree \in BOOLEAN : StartValidate(httpsFree, httpFree)
  \/ \E ok \in BOOLEAN : StartListenHttp(ok)
  \/ StartNoSsl
  \/ StartProvisionRoute
  \/ StartDefaultCert
  \/ \E ok \in BOOLEAN : StartListenHttps(ok)
  \/ \E servername \in SniNames(options) : Sni(servername)
  \/ GetCertificateStep
  \/ RunSettled
  \/ RunResume
  \/ RunSniCallback
  \/ CleanCertsRm
  \/ CleanCertsMkdir

SpecClean == InitClean /\ [][NextClean]_vars

\* --------------------------------------------------- lifecycle: behaviours
\* requests on the plaintext listener of the running server
LifecycleRequests ==
  [url : {<<"/">>, <<"/", "a", "?", "q">>},
   host : {Undefined, SslipHost(NumToStr(3000), DashedIp, <<>>),
           SslipHost(NumToStr(3000), DashedIp, <<":", "8">>)},
   xff : {Undefined},
   remoteAddress : {IpB},
   authorization : {UndefinedRec, [scheme |-> BasicScheme, decoded |-> AuthOption]}]

RunningHttpRequest(req) ==
  /\ microtasks = <<>>
  /\ srv.pc = "running"
  /\ httpListening
  /\ HttpRequest(req)

InitLifecycle ==
  /\ options \in {[DefaultOptions EXCEPT !.ports = r[1], !.name = r[2], !.noSsl = ns,
                                         !.httpsPort = hp, !.auth = au] :
                    r \in {<<<<>>, Undefined>>, <<<<3000>>, Undefined>>, <<<<0>>, Undefined>>,
                           <<<<3000>>, <<"a">>>>, <<<<3000, 8>>, <<"a">>>>},
                    ns \in BOOLEAN, hp \in {443, 8443},
                    au \in {Undefined, AuthOption, <<"u">>}}
  /\ proxyCall = NoCall
  /\ challengeTokens = EmptyMap
  /\ httpCall = [op |-> "none"]
  /\ InitCertIdle
  /\ InitServerIdle

NextLifecycle ==
  \/ \E httpsFree \in BOOLEAN, httpFree \in BOOLEAN : StartValidate(httpsFree, httpFree)
  \/ \E ok \in BOOLEAN : StartListenHttp(ok)
  \/ StartNoSsl
  \/ StartProvisionRoute
  \/ StartDefaultCert
  \/ \E ok \in BOOLEAN : StartListenHttps(ok)
  \/ GetCertificateStep
  \/ RunSettled
  \/ RunResume
  \/ \E req \in LifecycleRequests : RunningHttpRequest(req)
  \/ HttpReturn
  \/ \E l \in {"http", "https"} : RequestBegins(l)
  \/ \E l \in {"http", "https"} : RequestEnds(l)
  \/ Close
  \/ \E l \in {"http", "https"} : ListenerClosed(l)
  \/ \E c \in 1..MaxCloseCalls, unlinkOk \in BOOLEAN : CloseSettles(c, unlinkOk)

SpecLifecycle == InitLifecycle /\ [][NextLifecycle]_vars

\* requests in flight end, and the event loop delivers "close" and resumes close()
SpecLifecycleLive ==
  /\ InitLifecycle
  /\ [][NextLifecycle]_vars
  /\ \A l \in {"http", "https"} : WF_vars(RequestEnds(l)) /\ WF_vars(ListenerClosed(l))
  /\ \A c \in 1..MaxCloseCalls : WF_vars(\E unlinkOk \in BOOLEAN : CloseSettles(c, unlinkOk))

\* ------------------------------------------------- proxy engine: behaviours
InitProxy ==
  /\ options \in {[DefaultOptions EXCEPT !.ports = ps, !.name = n] :
                    ps \in PortLists, n \in NameChoices}
  /\ proxyCall = NoCall
  /\ challengeTokens = EmptyMap
  /\ httpCall = [op |-> "none"]
  /\ InitCertIdle
  /\ InitServerIdle

\* one engine call at a time: the engine is synchronous
ResolveCall(in) ==
  /\ proxyCall.op = "none"
  /\ proxyCall' = [NoCall EXCEPT !.op = "resolve", !.host = in.host, !.tok = in.tok,
                                 !.port = resolveTargetPort(options, in.host)]
  /\ UNCHANGED <<options, challengeTokens, httpVars, certVars, serverVars,
                 lifeVars, toolVars>>

HandleRequestCall(in) ==
  /\ proxyCall.op = "none"
  /\ LET r == handleRequest(options, in.host)
     IN  proxyCall' = [op |-> "handleRequest", host |-> in.host, tok |-> in.tok,
                       port |-> IF in.host \in {Undefined, <<>>} THEN Null
                                ELSE resolveTargetPort(options, in.host),
                       status |-> r.status, target |-> r.target, ret |-> r.ret]
  /\ UNCHANGED <<options, challengeTokens, httpVars, certVars, serverVars,
                 lifeVars, toolVars>>

\* the call returns; the engine is ready for the next one
ProxyReturn ==
  /\ proxyCall.op # "none"
  /\ proxyCall' = NoCall
  /\ UNCHANGED <<options, challengeTokens, httpVars, certVars, serverVars,
                 lifeVars, toolVars>>

UpgradeCall(in) ==
  /\ proxyCall.op = "none"
  /\ LET r == handleUpgrade(options, in.host)
     IN  proxyCall' = [op |-> "handleUpgrade", host |-> in.host, tok |-> in.tok,
                       port |-> IF in.host \in {Undefined, <<>>} THEN Null
                                ELSE resolveTargetPort(options, in.host),
                       status |-> 0, target |-> r.target, ret |-> r.ret]
  /\ UNCHANGED <<options, challengeTokens, httpVars, certVars, serverVars,
                 lifeVars, toolVars>>

\* forwarding errors: refused connection, timeout, backend reset
ForwardingErrors == {<<"E", "C", "O", "N", "N", "R", "E", "F", "U", "S", "E", "D">>,
                     <<"s", "o", "c", "k", "e", "t", " ", "h", "a", "n", "g", " ", "u", "p">>,
                     <<"E", "C", "O", "N", "N", "R", "E", "S", "E", "T">>}

\* a forwarded request or upgrade fails: http-proxy emits "error" with the
\* request and its ServerResponse (proxy.web) or its socket (proxy.ws)
ProxyError(err, headersSent) ==
  /\ proxyCall.op \in {"handleRequest", "handleUpgrade"}
  /\ proxyCall.ret
  /\ LET res == IF proxyCall.op = "handleRequest"
                THEN [kind |-> "ServerResponse", headersSent |-> headersSent]
                ELSE [kind |-> "Socket", headersSent |-> FALSE]
         r == proxyOnError(options, err, proxyCall.host, res)
     IN  proxyCall' = [op |-> "error", host |-> proxyCall.host, tok |-> proxyCall.tok,
                       port |-> proxyCall.port, target |-> proxyCall.target, ret |-> TRUE,
                       status |-> r.status, err |-> err, res |-> res, wrote |-> r.wrote,
                       body |-> r.body, threw |-> r.threw]
  /\ UNCHANGED <<options, challengeTokens, httpVars, certVars, serverVars,
                 lifeVars, toolVars>>

NextProxy ==
  \/ ProxyReturn
  \/ \E in \in HostInputs : ResolveCall(in)
  \/ \E in \in HostInputs \cup {[host |-> Undefined, tok |-> Null]} : HandleRequestCall(in)
  \/ \E in \in HostInputs \cup {[host |-> Undefined, tok |-> Null]} : UpgradeCall(in)
  \/ \E err \in ForwardingErrors, headersSent \in BOOLEAN : ProxyError(err, headersSent)

SpecProxy == InitProxy /\ [][NextProxy]_vars

\* ------------------------------------------------------ route table claims
ConfiguredPorts(opts) ==
  {routes(opts)[i].targetPort : i \in 1..Len(opts.ports)}
    \cup {nameMap(opts)[n] : n \in DOMAIN nameMap(opts)}

\* a leading <token>-<digit>: word characters, a dash, a digit
HasTokenDigit(host) ==
  LET hostname == SplitFirst(host, ":")
  IN  \E w \in 1..Len(hostname) :
        /\ \A j \in 1..w : hostname[j] \in WordChars
        /\ Len(hostname) >= w + 2
        /\ hostname[w + 1] = "-"
        /\ hostname[w + 2] \in Digits

\* C8: in dynamic mode a host {N}-{a}-{b}-{c}-{d}.sslip.io, with or without a
\* :port suffix, resolves to N, and a host without a leading <token>-<digit>
\* resolves to none.
C8_DynamicResolvesToken ==
  (proxyCall.op = "resolve" /\ isDynamic(options)) =>
     /\ proxyCall.tok # Null => proxyCall.port = proxyCall.tok
     /\ ~HasTokenDigit(proxyCall.host) => proxyCall.port = Null

C8_Witness ==
  /\ proxyCall.op = "resolve"
  /\ isDynamic(options)
  /\ proxyCall.host = SslipHost(NumToStr(3000), DashedIp, <<":", "4", "4", "3">>)
  /\ proxyCall.port = 3000

\* C9 (as stated): in static mode resolve returns none or a configured port,
\* and a host whose numeric token is not a configured targetPort resolves to
\* none.
C9_Original ==
  (proxyCall.op = "resolve" /\ ~isDynamic(options)) =>
     /\ proxyCall.port \in {Null} \cup ConfiguredPorts(options)
     /\ (proxyCall.tok # Null /\ proxyCall.tok \notin ConfiguredPorts(options))
          => proxyCall.port = Null

\* C9 (amended): in static mode resolve returns none or a configured port, and
\* a host whose numeric token is not a configured targetPort resolves to none
\* unless the host is a configured route hostname or its prefix before the
\* first dash is the configured alias name.
C9_StaticOnlyConfiguredPorts ==
  (proxyCall.op = "resolve" /\ ~isDynamic(options)) =>
     /\ proxyCall.port \in {Null} \cup ConfiguredPorts(options)
     /\ ( /\ proxyCall.tok # Null
          /\ proxyCall.tok \notin ConfiguredPorts(options)
          /\ \A i \in 1..Len(options.ports) :
               routes(options)[i].hostname # SplitFirst(proxyCall.host, ":")
          /\ SplitFirst(SplitFirst(proxyCall.host, ":"), "-") \notin DOMAIN nameMap(options) )
          => proxyCall.port = Null

C9_Witness ==
  /\ proxyCall.op = "resolve"
  /\ options.ports = <<3000>>
  /\ options.name = Undefined
  /\ proxyCall.host = SslipHost(NumToStr(8), DashedIp, <<>>)
  /\ proxyCall.port = Null

\* C10 (as stated): a missing Host header gives 400, a host that does not
\* resolve gives 404, neither contacts a backend and both return false;
\* otherwise the request goes to the resolved port and the call returns true.
C10_Original ==
  proxyCall.op = "handleRequest" =>
     IF proxyCall.host = Undefined
     THEN proxyCall.status = 400 /\ proxyCall.target = Null /\ ~proxyCall.ret
     ELSE IF resolveTargetPort(options, proxyCall.host) = Null
          THEN proxyCall.status = 404 /\ proxyCall.target = Null /\ ~proxyCall.ret
          ELSE /\ proxyCall.target = resolveTargetPort(options, proxyCall.host)
               /\ proxyCall.ret

\* C10 (amended): a missing or empty Host header gives 400, any other host that
\* does not resolve gives 404, neither contacts a backend and both return
\* false; otherwise the request goes to the resolved port and the call returns
\* true.
C10_ForwardIffResolved ==
  proxyCall.op = "handleRequest" =>
     IF proxyCall.host \in {Undefined, <<>>}
     THEN proxyCall.status = 400 /\ proxyCall.target = Null /\ ~proxyCall.ret
     ELSE IF proxyCall.port = Null
          THEN proxyCall.status = 404 /\ proxyCall.target = Null /\ ~proxyCall.ret
          ELSE /\ proxyCall.target = proxyCall.port
               /\ proxyCall.status = 0
               /\ proxyCall.ret

C10_Witness ==
  /\ proxyCall.op = "handleRequest"
  /\ proxyCall.host = UnknownHost
  /\ proxyCall.status = 404
  /\ proxyCall.target = Null

\* ----------------------------------------------- challenge responder claims
\* C6: a plaintext request whose path names a registered token is answered 200
\* with the key authorization, and is not redirected, proxied or rejected by
\* the IP-allow or basic-auth checks, with and without TLS.
C6_ChallengeFirst ==
  (/\ httpCall.op = "request"
   /\ httpCall.req.url # Undefined
   /\ StartsWith(httpCall.req.url, AcmePrefix)
   /\ Slice(httpCall.req.url, Len(AcmePrefix)) \in DOMAIN challengeTokens)
    => /\ httpCall.res.status = 200
       /\ httpCall.res.body = challengeTokens[Slice(httpCall.req.url, Len(AcmePrefix))]
       /\ httpCall.res.location = NullStr
       /\ httpCall.res.target = Null
       /\ httpCall.res.handler = "acme"

C6_Witness ==
  /\ httpCall.op = "request"
  /\ options.noSsl
  /\ options.ipAllow = {IpA}
  /\ options.auth = AuthOption
  /\ httpCall.req.url = AcmePrefix \o Token1
  /\ httpCall.req.xff = Undefined
  /\ httpCall.req.remoteAddress = IpB
  /\ httpCall.req.authorization = UndefinedRec
  /\ Token1 \in DOMAIN challengeTokens
  /\ httpCall.res.status = 200

\* C7: handleAcmeChallenge returns none without reading the token map for a
\* path that does not start with the prefix, none for an unregistered
\* remainder, and the stored key authorization for a registered token.
C7_ChallengeLookup ==
  (httpCall.op = "request" /\ httpCall.req.url \notin {Undefined, <<>>}) =>
     LET url == httpCall.req.url
         hasPrefix == Len(url) >= Len(AcmePrefix)
                        /\ \A i \in 1..Len(AcmePrefix) : url[i] = AcmePrefix[i]
         rest == [i \in 1..(Len(url) - Len(AcmePrefix)) |-> url[i + Len(AcmePrefix)]]
     IN  IF ~hasPrefix
         THEN httpCall.acme.value = NullStr /\ ~httpCall.acme.consulted
         ELSE IF rest \notin DOMAIN challengeTokens
              THEN httpCall.acme.value = NullStr
              ELSE httpCall.acme.value = challengeTokens[rest]

C7_Witness ==
  /\ httpCall.op = "request"
  /\ httpCall.req.url = AcmePrefix \o Token2
  /\ Token2 \in DOMAIN challengeTokens
  /\ httpCall.acme.value = challengeTokens[Token2]
  /\ httpCall.acme.value \in KeyAuthorizations(Token2)

\* ----------------------------------------------- certificate manager claims
Running(t) == ~Settled(t)

C5_HttpBoundBeforeAcquisition ==
  [][Len(tasks') > Len(tasks) => httpListening]_vars

C5_Witness ==
  /\ ~options.noSsl
  /\ httpListening
  /\ ~httpsListening
  /\ Len(tasks) = 1
  /\ tasks[1].pc = "challenge"
  /\ srv.pc \in {"awaitRoute", "awaitDefault"}

\* ------------------------------------------------------ forwarding error claims
\* C11: on a forwarding error of a proxied HTTP request the handler writes, when
\* no headers were sent, status 502 and the fixed page carrying the port the
\* request was forwarded to and no text of the error; when headers were sent
\* it writes nothing; and it never throws.
C11_ForwardingError ==
  (proxyCall.op = "error" /\ proxyCall.res.kind = "ServerResponse") =>
     /\ ~proxyCall.threw
     /\ IF proxyCall.res.headersSent
        THEN ~proxyCall.wrote /\ proxyCall.status = 0 /\ proxyCall.body = NoPage
        ELSE /\ proxyCall.wrote
             /\ proxyCall.status = 502
             /\ proxyCall.body.template = "502 Bad Gateway"
             /\ proxyCall.body.port = proxyCall.target
             /\ proxyCall.body.detail = <<>>

C11_Witness ==
  /\ proxyCall.op = "error"
  /\ proxyCall.res = [kind |-> "ServerResponse", headersSent |-> FALSE]
  /\ proxyCall.host = SslipHost(NumToStr(3000), DashedIp, <<>>)
  /\ proxyCall.status = 502
  /\ proxyCall.body.port = 3000

\* ------------------------------------------------------- SNI dispatch claims
\* C12: the SNI dispatch calls the handshake callback once and never with an
\* error: at once with the cached certificate when the server name is cached;
\* otherwise only after the provisioning for that name has settled, with the
\* provisioned certificate when it resolved and with the default certificate
\* when it rejected.
C12_SniCallbackOnce ==
  \A i \in 1..Len(handshakes) :
    LET h == handshakes[i]
    IN  /\ h.callbacks <= 1
        /\ (h.st = "done") <=> (h.callbacks = 1)
        /\ h.st = "done" => h.err = "null"
        /\ h.st = "done" => h.outcome \in {"cached", "provisioned", "default"}
        /\ (h.st = "wait" \/ h.outcome # "cached") =>
              (h.task \in 1..Len(tasks) /\ tasks[h.task].hostname = h.name)
        /\ (h.st = "wait" /\ microtasks = <<>>) =>
              (~Settled(h.task) /\ ~CacheHas(certCache, h.name))
        /\ h.outcome = "cached" =>
              /\ h.task = 0
              /\ CacheHas(certCache, h.name)
              /\ h.ctx = CacheGet(certCache, h.name)
        /\ h.outcome = "provisioned" =>
              /\ tasks[h.task].pc = "resolved"
              /\ h.ctx = tasks[h.task].result
        /\ h.outcome = "default" =>
              /\ tasks[h.task].pc = "rejected"
              /\ h.ctx = defaultCert

C12_Witness ==
  /\ \E i \in 1..Len(handshakes) : handshakes[i].outcome = "cached"
  /\ \E i \in 1..Len(handshakes) : handshakes[i].outcome = "provisioned"
  /\ \E i \in 1..Len(handshakes) :
       /\ handshakes[i].outcome = "default"
       /\ handshakes[i].callbacks = 1
       /\ handshakes[i].ctx = defaultCert

Forwarded == httpCall.op # "none" /\ httpCall.res.target # Null

\* the request carries Authorization: Basic base64(<the configured user:pass>)
CarriesCredentials(opts, req) ==
  /\ req.authorization # UndefinedRec
  /\ req.authorization.scheme = BasicScheme
  /\ req.authorization.decoded = opts.auth

\* C14 (as stated): with --auth configured every request or upgrade that is
\* forwarded to a backend carried the configured credentials, and one without
\* them is answered 401 or 403.
C14_Original ==
  (httpCall.op # "none" /\ options.auth # Undefined) =>
     IF CarriesCredentials(options, httpCall.req)
     THEN TRUE
     ELSE /\ httpCall.res.target = Null
          /\ (httpCall.op = "request" /\ httpCall.res.handler \in {"acme", "redirect"})
               \/ httpCall.res.status \in {401, 403}

C14_Witness ==
  /\ httpCall.op = "tlsUpgrade"
  /\ options.auth = AuthOption
  /\ httpCall.req.authorization = UndefinedRec
  /\ httpCall.res.target = 3000
  /\ httpCall.res.status = 0

\* the address of the connection, IPv6-mapped IPv4 addresses in IPv4 form
SourceIp(req) ==
  IF StartsWith(req.remoteAddress, Ipv6Mapped)
  THEN Slice(req.remoteAddress, Len(Ipv6Mapped)) ELSE req.remoteAddress

\* C15 (as stated): with --ip-allow configured every request or upgrade that
\* is forwarded came from a connection whose source address is in the list,
\* and one from any other address is answered 403 whatever its headers.
C15_Original ==
  (httpCall.op # "none" /\ options.ipAllow # UndefinedSet) =>
     IF SourceIp(httpCall.req) \in options.ipAllow
     THEN TRUE
     ELSE /\ httpCall.res.target = Null
          /\ (httpCall.op = "request" /\ httpCall.res.handler \in {"acme", "redirect"})
               \/ httpCall.res.status = 403

C15_Witness ==
  /\ httpCall.op = "tlsRequest"
  /\ options.ipAllow = {IpA}
  /\ httpCall.req.remoteAddress = IpB
  /\ httpCall.req.xff = IpA \o <<",", " ">> \o IpB
  /\ httpCall.res.target = 3000

\* --------------------------------------------------------- shutdown claims
CloseCalled == Len(closing'.calls) > Len(closing.calls)

Resolves(c) ==
  /\ c <= Len(closing.calls)
  /\ closing.calls[c].st = "pending"
  /\ closing'.calls[c].st = "resolved"

\* C16: close() closes the proxy engine and starts closing the plaintext and
\* the TLS listener in the same step, after which no new request is accepted;
\* the call resolves only after both listeners have emitted "close" with no
\* request left on them, and no request in flight is ever cancelled by it.
C16_ShutdownOrder ==
  [][/\ CloseCalled =>
          /\ closing'.proxyCloses = closing.proxyCloses + 1
          /\ ~httpListening' /\ ~httpsListening'
          /\ Len(closing'.calls) \in closing'.waiting.http
          /\ ~options.noSsl => Len(closing'.calls) \in closing'.waiting.https
          /\ closing'.calls[Len(closing'.calls)].st = "pending"
          /\ inflight' = inflight
     /\ \A l \in {"http", "https"} : inflight'[l] > inflight[l] => closing.calls = <<>>
     /\ \A c \in 1..MaxCloseCalls :
          Resolves(c) =>
            /\ closing.calls[c].http /\ closing.calls[c].https
            /\ c \notin closing.waiting.http \cup closing.waiting.https
            /\ inflight.http = 0 /\ inflight.https = 0
     /\ inflight'.aborted = 0]_vars

\* a close() called with a request in flight on a TLS configuration has resolved
C16_Witness ==
  /\ ~options.noSsl
  /\ Len(closing.calls) >= 1
  /\ closing.calls[1].open > 0
  /\ closing.calls[1].st = "resolved"
  /\ inflight.aborted = 0

ConfigurationError == srv.pc = "failed" /\ srv.error \in {"config", "listen", "httpsListen"}

\* the configurations the validation of startServer is documented to refuse
MalformedConfiguration(opts) ==
  \/ \E i \in 1..Len(opts.ports) : opts.ports[i] \notin 1..65535
  \/ opts.name # Undefined /\ Len(opts.ports) > 1

\* C18 as stated: whenever startServer has failed with a configuration error
\* (malformed options, or a port that is in use), no listener is bound.
C18_Original == ConfigurationError => ~httpListening /\ ~httpsListening

\* C18: a malformed configuration never gets a listener bound or an
\* acquisition started, and a failure of the up-front checks or of the plaintext
\* bind leaves nothing bound; an HTTPS port taken after the up-front check is
\* reported by the TLS bind, with the plaintext listener already bound.
C18_ConfigErrorsBeforeBind ==
  /\ MalformedConfiguration(options) =>
       /\ ~httpListening /\ ~httpsListening /\ tasks = <<>>
       /\ srv.pc \in {"init", "failed"}
       /\ srv.pc = "failed" => srv.error = "config"
  /\ srv.pc = "failed" /\ srv.error \in {"config", "listen"} =>
       ~httpListening /\ ~httpsListening /\ tasks = <<>>
  /\ srv.pc = "failed" /\ srv.error = "httpsListen" => httpListening /\ ~httpsListening

\* --name with two ports has been refused
C18_Witness ==
  /\ options.name # Undefined
  /\ Len(options.ports) = 2
  /\ srv.pc = "failed"
  /\ srv.error = "config"
  /\ ~httpListening

\* --------------------------------------------------- plaintext mode claims
\* https://<Host without :port>[:<httpsPort> unless 443]<path and query>
RedirectLocation(opts, req) ==
  <<"h", "t", "t", "p", "s", ":", "/", "/">>
    \o (IF req.host = Undefined THEN <<>> ELSE SplitFirst(req.host, ":"))
    \o (IF opts.httpsPort = 443 THEN <<>> ELSE <<":">> \o NumToStr(opts.httpsPort))
    \o req.url

Redirected(res) == res.status = 301 \/ res.location # NullStr \/ res.handler = "redirect"

CleanReturns == certsDir'.cleans > certsDir.cleans

CacheUntouched ==
  /\ certCache' = certCache
  /\ certPending' = certPending
  /\ defaultCert' = defaultCert

\* C20 as stated: when cleanCerts returns the storage root exists and holds no
\* file, and the certificate cache of the process is as it was.
C20_Original ==
  [][CleanReturns => certsDir'.exists /\ disk' = EmptyDisk /\ CacheUntouched]_vars

\* C20: when the storage root exists, cleanCerts removes every stored file and
\* then recreates the root, which is then empty unless a running process
\* stored a certificate in between; when the root does not exist it returns
\* without creating it.  In both cases the certificate cache of a running
\* process is untouched, and storage is empty whenever the root is absent.
C20_CleanCerts ==
  [][/\ (certsDir.pc = "idle" /\ certsDir'.pc = "mkdir") =>
          disk' = EmptyDisk /\ ~certsDir'.exists /\ CacheUntouched
     /\ (CleanReturns /\ certsDir.pc = "mkdir") =>
          certsDir'.exists /\ disk' = disk /\ CacheUntouched
     /\ (CleanReturns /\ certsDir.pc = "idle") =>
          /\ ~certsDir.exists /\ ~certsDir'.exists
          /\ disk = EmptyDisk /\ disk' = EmptyDisk
          /\ CacheUntouched
     /\ ~certsDir.exists => disk = EmptyDisk]_vars

\* the running server still holds a cached certificate after cleanCerts
\* emptied the storage that held its files
C20_Witness ==
  /\ certsDir.cleans = 1
  /\ certsDir.exists
  /\ disk = EmptyDisk
  /\ srv.pc = "running"
  /\ Len(certCache) > 0
  /\ defaultCert # NoResult

\* ------------------------------------------------- durable storage claims
\* C21 as stated: once an acquisition has produced certificate material (the
\* ACME order is finalized, or openssl has written the self-signed pair), a
\* failure to store it does not change what getCertificate returns: the call
\* resolves with that material.
C21_Original ==
  [][\A t \in 1..Len(tasks) :
       /\ (tasks[t].pc = "save" /\ tasks'[t].pc # "save") =>
            /\ tasks'[t].pc = "resolved"
            /\ tasks'[t].result.cert = Material("acme", t)
       /\ (tasks[t].pc = "selfsign" /\ disk'[tasks[t].hostname].cert = Material("self", t)) =>
            /\ tasks'[t].pc = "resolved"
            /\ tasks'[t].result.cert = Material("self", t)]_vars

\* the ACME certificate of call t is on disk without its metadata, and the call
\* is about to replace it with a self-signed one
C21_Witness ==
  \E t \in 1..Len(tasks) :
    /\ tasks[t].pc = "selfsign"
    /\ disk[tasks[t].hostname].cert = Material("acme", t)
    /\ disk[tasks[t].hostname].meta # CertMeta(now, AcmeDays, tasks[t].hostname)

\* a handshake for name is accepted in this step
Handshake(name) ==
  /\ Len(handshakes') = Len(handshakes) + 1
  /\ handshakes'[Len(handshakes')].name = name

\* C22 as stated: a handshake for a hostname whose stored certificate has 30
\* days or fewer left starts (or joins) an acquisition instead of being
\* served the record the process holds.
C22_Original ==
  [][\A h \in CertHosts :
       (/\ Handshake(h)
        /\ disk[h].meta.state = "ok"
        /\ disk[h].meta.expiresAt - now <= ReuseDays) =>
          /\ handshakes'[Len(handshakes')].outcome # "cached"
          /\ handshakes'[Len(handshakes')].task # 0]_vars

\* a handshake was served from the cache on a day when the certificate of
\* its hostname, loaded at startup with 31 days left, had 30 days left
C22_Witness ==
  \E i \in 1..Len(handshakes) :
    LET h == handshakes[i].name
    IN  /\ handshakes[i].outcome = "cached"
        /\ handshakes[i].at = 1
        /\ disk[h].meta.state = "ok"
        /\ disk[h].meta.expiresAt - handshakes[i].at = ReuseDays
        /\ handshakes[i].ctx.cert = disk[h].cert
        /\ Len(tasks) = 1

\* ----------------------------------------------------------- env file claims
WellFormed(c) ==
  /\ IndexOf(c, MARKER_START) # -1
  /\ IndexOf(c, MARKER_START) < IndexOf(c, MARKER_END)

\* the content outside the managed block
Outside(c) ==
  IF WellFormed(c)
  THEN SubSeq(c, 1, IndexOf(c, MARKER_START)) \o Slice(c, IndexOf(c, MARKER_END) + Len(MARKER_END))
  ELSE c

\* C23 as stated: after writeEnvFile the content outside the managed block is
\* the content that was outside it before (behind the blank line that
\* separates a prepended block), and after writeEnvFile and cleanEnvFile on
\* a user-provided file the file is the original content outside the block.
C23_Original ==
  (envFile.pc \in {"written", "cleaned"} /\ envFile.original.exists) =>
     LET outside == Outside(envFile.original.content)
     IN  /\ envFile.pc = "written" =>
               Outside(envFile.file.content) \in {outside, <<NL, NL>> \o outside}
         /\ (envFile.pc = "cleaned" /\ ~envFile.isDefault
               /\ envFile.file # [exists |-> TRUE, content |-> replaceManagedBlock(envFile.original.content, envFile.block)]) =>
               envFile.file = [exists |-> TRUE, content |-> outside]

\* a user file that ends with three newlines has lost one of them after the
\* round trip
C23_Witness ==
  /\ envFile.pc = "cleaned"
  /\ ~envFile.isDefault
  /\ envFile.original = [exists |-> TRUE, content |-> <<"A", NL, NL, NL>>]
  /\ envFile.file = [exists |-> TRUE, content |-> <<"A", NL, NL>>]

\* ----------------------------------------------------------- settings claims
\* C24 as stated: after createBackup, applySettings and restoreFromBackup an
\* env target file that existed before has its original content, a target
\* file that did not exist before is gone, and the backup file is gone.
C24_Original ==
  settings.pc = "restored" =>
     /\ settings.file = settings.original
     /\ ~settings.backupFile

\* the file held one quoted value, which the round trip wrote back unquoted
C24_Witness ==
  /\ settings.pc = "restored"
  /\ settings.variables = <<[key |-> <<"A">>, value |-> <<"u">>]>>
  /\ settings.original = [exists |-> TRUE, content |-> <<"A", "=", "\"", "A", "\"">>]
  /\ settings.file = [exists |-> TRUE, content |-> <<"A", "=", "A">>]
  /\ ~settings.backupFile

\* ------------------------------------------------- pending map claims
\* C25: a handshake for a server name that is not cached checks the pending
\* map and registers its acquisition in the same step: when the name is
\* pending it starts nothing and waits for the registered call, otherwise it
\* starts exactly one getCertificate call and registers it; a waiting
\* handshake waits for the registered call of its name until that call settles.
C25_CheckThenInsertIsOneStep ==
  /\ [](\A i \in 1..Len(handshakes) :
          handshakes[i].st = "wait" =>
            \/ Settled(handshakes[i].task)
            \/ /\ handshakes[i].name \in DOMAIN certPending
               /\ certPending[handshakes[i].name] = handshakes[i].task)
  /\ [][Len(handshakes') = Len(handshakes) + 1 =>
          LET hs == handshakes'[Len(handshakes')]
          IN  ~CacheHas(certCache, hs.name) =>
                IF hs.name \in DOMAIN certPending
                THEN /\ tasks' = tasks
                     /\ certPending' = certPending
                     /\ hs.task = certPending[hs.name]
                ELSE /\ Len(tasks') = Len(tasks) + 1
                     /\ tasks'[Len(tasks')].hostname = hs.name
                     /\ tasks'[Len(tasks')].pc = "check"
                     /\ certPending' = [x \in DOMAIN certPending \cup {hs.name} |->
                                          IF x = hs.name THEN Len(tasks') ELSE certPending[x]]
                     /\ hs.task = Len(tasks')]_vars

\* three handshakes for one uncached name wait for the one call that the
\* first of them started
C25_Witness ==
  /\ Len(handshakes) = 3
  /\ UnknownHost \in DOMAIN certPending
  /\ \A i \in 1..3 : /\ handshakes[i].name = UnknownHost
                     /\ handshakes[i].st = "wait"
                     /\ handshakes[i].task = certPending[UnknownHost]
  /\ Cardinality({t \in 1..Len(tasks) : tasks[t].hostname = UnknownHost}) = 1
  /\ tasks[certPending[UnknownHost]].pc = "acme"

\* C26: a pending entry for h names a getCertificate call for h that has not
\* settled or whose settlement is being handled, and every such call has its
\* entry; the entry is removed in the step that handles the settlement, when
\* nobody waiting for the call has been told yet, and on success the
\* certificate is in the cache in that same step; an entry that was removed
\* does not come back, and whoever is told the result finds no entry.
C26_PendingOnlyWhileRunning ==
  /\ [](/\ \A h \in DOMAIN certPending :
             LET t == certPending[h]
             IN  /\ t \in 1..Len(tasks)
                 /\ tasks[t].hostname = h
                 /\ Settled(t) => (microtasks # <<>> /\ Head(microtasks) = [kind |-> "settled", id |-> t])
        /\ \A t \in 1..Len(tasks) :
             (tasks[t].via = "provision" /\ ~Settled(t)) =>
                (tasks[t].hostname \in DOMAIN certPending /\ certPending[tasks[t].hostname] = t))
  /\ [][/\ \A h \in DOMAIN certPending \ DOMAIN certPending' :
             LET t == certPending[h]
             IN  /\ Head(microtasks) = [kind |-> "settled", id |-> t]
                 /\ \A i \in 1..Len(handshakes) :
                      handshakes[i].task = t =>
                        (handshakes[i].st = "wait" /\ handshakes'[i].st = "wait")
                 /\ tasks[t].pc = "resolved" =>
                      (CacheHas(certCache', h) /\ CacheGet(certCache', h) = tasks[t].result)
                 /\ tasks[t].pc = "rejected" => certCache' = certCache
        /\ \A h \in DOMAIN certPending' :
             (h \notin DOMAIN certPending \/ certPending'[h] # certPending[h]) =>
               (certPending'[h] = Len(tasks') /\ Len(tasks') = Len(tasks) + 1)
        /\ \A i \in 1..Len(handshakes) :
             (handshakes[i].st = "wait" /\ handshakes'[i].st = "done") =>
               handshakes[i].name \notin DOMAIN certPending]_vars

\* the call for an unknown name resolved and its entry is gone, the
\* certificate is cached, and the waiting handshake has not been told yet
C26_Witness ==
  \E i \in 1..Len(handshakes) :
    /\ handshakes[i].st = "wait"
    /\ handshakes[i].name = UnknownHost
    /\ tasks[handshakes[i].task].pc = "resolved"
    /\ UnknownHost \notin DOMAIN certPending
    /\ CacheHas(certCache, UnknownHost)
    /\ CacheGet(certCache, UnknownHost) = tasks[handshakes[i].task].result
    /\ Head(microtasks) = [kind |-> "sni", id |-> i]

\* ------------------------------------------------- challenge token claims
\* C27: the challenge token map holds exactly the tokens of the orders whose
\* challenge is issued and not yet validated or abandoned, each with the key
\* authorization of its own order; an order that went on to save its
\* certificate, fell back to self-signed, or settled has no token left.
C27_TokensScopedToOrder ==
  /\ \A token \in DOMAIN challengeTokens :
       \E t \in 1..Len(tasks) :
         /\ token = TokenOf(t)
         /\ tasks[t].pc = "challenge"
         /\ challengeTokens[token] = KeyAuthOf(t)
  /\ \A t \in 1..Len(tasks) :
       /\ tasks[t].pc = "challenge" => TokenOf(t) \in DOMAIN challengeTokens
       /\ tasks[t].pc \in {"save", "selfsign", "resolved", "rejected"} =>
            TokenOf(t) \notin DOMAIN challengeTokens

\* two orders for different hostnames overlap: one fell back to self-signed
\* after its challenge and finished, the other still has its challenge out
C27_Witness ==
  \E t1 \in 1..Len(tasks), t2 \in 1..Len(tasks) :
    /\ tasks[t1].hostname # tasks[t2].hostname
    /\ tasks[t1].pc = "resolved"
    /\ tasks[t1].acmeFailed
    /\ tasks[t1].result.selfSigned
    /\ tasks[t2].pc = "challenge"
    /\ t1 > t2
    /\ DOMAIN challengeTokens = {TokenOf(t2)}

\* ------------------------------------------------- durable storage writers
\* who is writing the files of hostname h: the ACME stage of a call (its save
\* or a write the save left in flight) and the self-signed stage of a call
Writers(h) ==
  {<<t, "acme">> : t \in {u \in 1..Len(tasks) :
      tasks[u].hostname = h /\ (tasks[u].pc = "save" \/ tasks[u].lateWrites # {})}}
  \cup {<<t, "self">> : t \in {u \in 1..Len(tasks) :
      tasks[u].hostname = h /\ tasks[u].pc = "selfsign"}}

GeneratedKeys == {tasks[t].accountKey : t \in 1..Len(tasks)} \ {NoKey}

\* C29 as stated: at most one account key is ever generated, it is the stored
\* one, and every order runs under it.
C29_Original ==
  /\ Cardinality(GeneratedKeys \cup ({accountKeyFile} \ {NoKey})) <= 1
  /\ \A t \in 1..Len(tasks) :
       tasks[t].pc \in {"challenge", "save"} => tasks[t].accountKey = accountKeyFile

\* the stored certificate of the route was reused at startup, no account key
\* was stored, and two handshakes for different names each generated a key:
\* the order of the first runs under a key that is no longer the stored one
C29_Witness ==
  \E t1 \in 1..Len(tasks), t2 \in 1..Len(tasks) :
    /\ tasks[t1].hostname # tasks[t2].hostname
    /\ tasks[t1].accountKey = [by |-> t1]
    /\ tasks[t2].accountKey = [by |-> t2]
    /\ tasks[t1].pc = "challenge"
    /\ tasks[t2].pc = "challenge"
    /\ accountKeyFile = [by |-> t2]
    /\ t1 < t2

\* ------------------------------------------------------ resolve order claims
\* C30: resolve strips the ":port" suffix and returns the static route of the
\* exact hostname when there is one; otherwise the alias of the substring
\* before the first "-" when there is one; only otherwise the numeric token
\* decides, accepted in dynamic mode or when it is a configured target port.
C30_ResolveOrder ==
  proxyCall.op = "resolve" =>
    LET hostname == SplitFirst(proxyCall.host, ":")
        prefix == SplitFirst(hostname, "-")
        rm == routeMap(routes(options))
        nm == nameMap(options)
        token == parsePortFromHost(proxyCall.host)
    IN  /\ hostname \in DOMAIN rm => proxyCall.port = rm[hostname]
        /\ (hostname \notin DOMAIN rm /\ prefix \in DOMAIN nm) => proxyCall.port = nm[prefix]
        /\ (hostname \notin DOMAIN rm /\ prefix \notin DOMAIN nm) =>
             proxyCall.port =
               IF token # Null /\ (isDynamic(options)
                                     \/ \E i \in 1..Len(options.ports) :
                                          routes(options)[i].targetPort = token)
               THEN token ELSE Null

\* port 3000 is exposed under the name "8": a host of another address that
\* starts with "8-" is no route, its alias wins, and the token 8 is not parsed
C30_Witness ==
  /\ proxyCall.op = "resolve"
  /\ options.ports = <<3000>>
  /\ options.name = <<"8">>
  /\ SplitFirst(proxyCall.host, ":") \notin DOMAIN routeMap(routes(options))
  /\ SplitFirst(proxyCall.host, "-") = <<"8">>
  /\ parsePortFromHost(proxyCall.host) = 8
  /\ Len(proxyCall.host) > Len(SplitFirst(proxyCall.host, ":"))
  /\ proxyCall.port = 3000

ValueIn(file, key) ==
  IF file.exists /\ key \in DOMAIN parseEnvFile(file.content)
  THEN parseEnvFile(file.content)[key] ELSE NullStr

\* the target file holds the original values of the managed variables
OriginalsIn(s) ==
  /\ s.original.exists \/ ~s.file.exists
  /\ \A i \in 1..Len(s.variables) :
       ValueIn(s.file, s.variables[i].key) = ValueIn(s.original, s.variables[i].key)

HoldsOriginals == OriginalsIn(settings)

\* a backup that parses is on disk and holds the original values
BackupHoldsOriginals ==
  /\ settings.backupFile
  /\ ~settings.backupCorrupt
  /\ Len(settings.manifest.entries) = Len(settings.variables)
  /\ ("target" \in settings.manifest.createdFiles) = ~settings.original.exists
  /\ \A i \in 1..Len(settings.variables) :
       /\ settings.manifest.entries[i].variable = settings.variables[i].key
       /\ settings.manifest.entries[i].originalValue
            = ValueIn(settings.original, settings.variables[i].key)

\* C32 (as stated): whatever crashes happen, the original values are in the
\* target file or in a backup on disk; a target file is written only while
\* such a backup is on disk; the backup is removed only by a restore, which
\* leaves the originals in the file, or by the exit after a failed tunnel
\* start, when nothing was modified; and a new backup is created only when no
\* backup is left and the file holds the originals.
C32_Original ==
  /\ [](settings.pc # "off" => (HoldsOriginals \/ BackupHoldsOriginals))
  /\ [][/\ settings'.file # settings.file => BackupHoldsOriginals
        /\ (settings.backupFile /\ ~settings'.backupFile) =>
             /\ OriginalsIn(settings')
             /\ \/ settings.backupCorrupt
                \/ settings'.pc = "exited" /\ settings'.file = settings.file
                \/ /\ settings'.pc \in {"start", "restored"}
                   /\ settings'.file = RestoredTarget(settings.file, settings.manifest)
        /\ (settings.pc = "start" /\ settings'.pc = "backedUp") =>
             (~settings.backupFile /\ HoldsOriginals)]_vars

\* the order of the steps alone: a target file is written only under a backup
\* that parses; a backup that parses is removed only by the restore that
\* wrote the file from it or by the exit that left the file alone; a backup
\* is created only when none is left
C32_BackupBeforeModify ==
  [][/\ settings'.file # settings.file => (settings.backupFile /\ ~settings.backupCorrupt)
     /\ (settings.backupFile /\ ~settings'.backupFile) =>
          \/ settings.backupCorrupt
          \/ settings'.pc = "exited" /\ settings'.file = settings.file
          \/ /\ settings'.pc \in {"start", "restored"}
             /\ settings'.file = RestoredTarget(settings.file, settings.manifest)
     /\ (settings.pc = "start" /\ settings'.pc = "backedUp") => ~settings.backupFile]_vars

\* the original value of A was a blank between quotes; the session ended
\* with a restore, the backup is gone, and the file holds A with no value
C32_Witness ==
  /\ settings.pc = "restored"
  /\ ~settings.backupFile
  /\ settings.crashes = 0
  /\ settings.original = [exists |-> TRUE, content |-> <<"A", "=", "\"", " ", "\"">>]
  /\ settings.variables = <<[key |-> <<"A">>, value |-> <<"u">>]>>
  /\ ValueIn(settings.original, <<"A">>) = <<" ">>
  /\ settings.file.exists
  /\ ValueIn(settings.file, <<"A">>) = <<>>

\* the process crashed after applying the settings, and crashed again inside
\* the restore of the next session: the file holds the original value again
\* and the backup of the first session is still on disk
C32_WitnessCrashes ==
  /\ settings.pc = "boot"
  /\ settings.crashes = 2
  /\ settings.original = [exists |-> TRUE, content |-> <<"A", "=", "A">>]
  /\ settings.file = settings.original
  /\ settings.variables = <<[key |-> <<"A">>, value |-> <<"u">>]>>
  /\ BackupHoldsOriginals

\* ------------------------------------------------- selfSigned flag claims
\* C33 as stated: a record returned with selfSigned = FALSE holds material
\* issued by the ACME authority, and self-signed material is returned with
\* selfSigned = TRUE, also when it is loaded from the stored files.
C33_Original ==
  \A t \in 1..Len(tasks) :
    tasks[t].pc = "resolved" =>
      /\ (~tasks[t].result.selfSigned =>
            /\ tasks[t].result.key.kind = "acme"
            /\ tasks[t].result.cert.kind = "acme")
      /\ ((tasks[t].result.cert.kind = "self" \/ tasks[t].result.key.kind = "self") =>
            tasks[t].result.selfSigned)

\* a first call fell back to self-signed and stored it with a year of
\* validity; a later call reused the stored files and returned them with
\* selfSigned = FALSE
C33_Witness ==
  \E t1 \in 1..Len(tasks), t2 \in 1..Len(tasks) :
    /\ t1 < t2
    /\ tasks[t1].hostname = tasks[t2].hostname
    /\ tasks[t1].pc = "resolved"
    /\ tasks[t1].result.selfSigned
    /\ tasks[t2].pc = "resolved"
    /\ tasks[t2].acmeAttempts = 0
    /\ ~tasks[t2].result.selfSigned
    /\ tasks[t2].result.cert = Material("self", t1)
    /\ tasks[t2].result.key = Material("self", t1)

\* ------------------------------------------------- failed startup claims
\* C34 as stated: when startServer has rejected after the plaintext listener
\* was bound, because a certificate could not be provisioned or the TLS
\* listener could not bind, no listener is bound.
C34_Original ==
  (srv.pc = "failed" /\ srv.error \in {"provision", "httpsListen"}) =>
     (~httpListening /\ ~httpsListening)

\* the certificates were ready, the TLS port could not be bound, startServer
\* has rejected, and the plaintext listener is still bound
C34_Witness ==
  /\ srv.pc = "failed"
  /\ srv.error = "httpsListen"
  /\ defaultCert # NoResult
  /\ httpListening
  /\ ~httpsListening
  /\ ~pidFile

\* ------------------------------------------------- WebSocket upgrade claims
\* C35 (as stated): every WebSocket upgrade handed to an "upgrade" listener
\* is either forwarded to a backend or has its client socket ended or
\* destroyed; after handleUpgrade returns false the socket is not left open.
C35_Original ==
  (httpCall.op \in {"tlsUpgrade", "upgrade"} /\ httpCall.res.handler = "upgrade") =>
     \/ httpCall.res.target # Null /\ httpCall.res.socket = "piped"
     \/ httpCall.res.target = Null /\ httpCall.res.socket \in {"ended", "destroyed"}

\* an upgrade on the TLS listener for a host that resolves to no port: no
\* backend was contacted and the socket is still open when the listener returns
C35_Witness ==
  /\ httpCall.op = "tlsUpgrade"
  /\ httpCall.req.host # Undefined
  /\ httpCall.req.host # <<>>
  /\ resolveTargetPort(options, httpCall.req.host) = Null
  /\ httpCall.res.handler = "upgrade"
  /\ httpCall.res.target = Null
  /\ httpCall.res.socket = "open"

\* ------------------------------------------------- on-demand provisioning claims
\* C36 (as stated): in non-dynamic mode a TLS handshake starts (or waits on)
\* a certificate acquisition only for a server name that the route table
\* resolves to a target port; an unroutable name causes no ACME order and no
\* self-signed generation.
C36_Original ==
  ~isDynamic(options) =>
     \A i \in 1..Len(handshakes) :
        handshakes[i].task # 0 =>
           resolveTargetPort(options, handshakes[i].name) # Null

\* one exposed port; a client presented a name no route resolves, and the
\* acquisition its handshake started placed an ACME order, fell back to a
\* self-signed certificate and stored it
C36_Witness ==
  /\ options.ports = <<3000>>
  /\ \E i \in 1..Len(handshakes) :
        /\ handshakes[i].name = UnknownHost
        /\ resolveTargetPort(options, UnknownHost) = Null
        /\ handshakes[i].task # 0
        /\ tasks[handshakes[i].task].via = "provision"
        /\ tasks[handshakes[i].task].hostname = UnknownHost
        /\ tasks[handshakes[i].task].acmeAttempts > 0
        /\ tasks[handshakes[i].task].selfSignedRuns > 0
        /\ handshakes[i].outcome = "provisioned"
        /\ CacheHas(certCache, UnknownHost)

\* ------------------------------------------------------ resolved port claims
\* C37 (as stated): in every mode a port returned by resolve is in 1..65535
\* and is the whole leading token of the hostname read as a decimal number; a
\* token that is not purely decimal digits, or that denotes 0 or a value above
\* 65535, resolves to none.
C37_Original ==
  proxyCall.op = "resolve" =>
     /\ proxyCall.port # Null =>
          (proxyCall.port \in 1..65535 /\ proxyCall.port = proxyCall.tok)
     /\ (proxyCall.tok = Null \/ proxyCall.tok = 0 \/ proxyCall.tok > 65535) =>
          proxyCall.port = Null

\* dynamic mode, no alias: the token 65536 is returned as the port
C37_Witness ==
  /\ proxyCall.op = "resolve"
  /\ isDynamic(options)
  /\ options.name = Undefined
  /\ proxyCall.host = SslipHost(NumToStr(65536), DashedIp, <<>>)
  /\ proxyCall.tok = 65536
  /\ proxyCall.port = 65536

\* dynamic mode, no alias: the token "8a" is no decimal number and 8 is returned
C37_WitnessPrefix ==
  /\ proxyCall.op = "resolve"
  /\ isDynamic(options)
  /\ options.name = Undefined
  /\ proxyCall.host = SslipHost(<<"8", "a">>, DashedIp, <<>>)
  /\ proxyCall.tok = Null
  /\ proxyCall.port = 8


\* ------------------------------------------------- cache and pending claims
\* the calls made for a hostname so far
CallsFor(h) == {t \in 1..Len(tasks) : tasks[t].hostname = h}

\* C38: no hostname is in the certificate cache and in the pending map at the
\* same time; a cache entry for h holds the result of a resolved
\* getCertificate call for h, and a handshake answered with the default
\* certificate after a failed provisioning leaves no cache entry for its
\* name; a handshake for h that arrives when the last provisioning for h
\* failed starts a new getCertificate call for h.
C38_CacheAndPendingDisjoint ==
  /\ [](\A i \in 1..Len(certCache) :
          /\ certCache[i].hostname \notin DOMAIN certPending
          /\ \E t \in CallsFor(certCache[i].hostname) :
                tasks[t].pc = "resolved" /\ tasks[t].result = certCache[i].cert)
  /\ [][/\ \A i \in 1..Len(handshakes) :
             (handshakes[i].st = "wait" /\ handshakes'[i].outcome = "default") =>
                /\ ~CacheHas(certCache', handshakes[i].name)
                /\ handshakes[i].name \notin DOMAIN certPending'
        /\ Len(handshakes') = Len(handshakes) + 1 =>
             LET hs == handshakes'[Len(handshakes')]
             IN  (\E t \in CallsFor(hs.name) :
                     /\ \A u \in CallsFor(hs.name) : u <= t
                     /\ tasks[t].pc = "rejected") =>
                   /\ Len(tasks') = Len(tasks) + 1
                   /\ hs.task = Len(tasks')
                   /\ hs.st = "wait"
                   /\ tasks'[hs.task].hostname = hs.name
                   /\ tasks'[hs.task].pc = "check"
                   /\ certPending'[hs.name] = hs.task]_vars

\* the provisioning for an unknown name failed and its handshake got the
\* default certificate; the name is neither cached nor pending, and a second
\* handshake for it waits for a second call
C38_Witness ==
  /\ Len(handshakes) >= 2
  /\ handshakes[1].name = UnknownHost
  /\ handshakes[1].outcome = "default"
  /\ handshakes[1].ctx = defaultCert
  /\ tasks[handshakes[1].task].pc = "rejected"
  /\ handshakes[2].name = UnknownHost
  /\ handshakes[2].st = "wait"
  /\ handshakes[2].task > handshakes[1].task
  /\ UnknownHost \in DOMAIN certPending
  /\ certPending[UnknownHost] = handshakes[2].task
  /\ ~CacheHas(certCache, UnknownHost)


\* ------------------------------------------------------------ tunnel claims
\* C39 (as stated): when the promise of startTunnels has rejected, every
\* tunnel started for a port whose own start did not fail has been stopped;
\* and each startTunnel promise settles once, resolved by the first url event
\* or rejected by an error or the timeout, whichever comes first.
C39_Original ==
  /\ [](tunnels.call = "rejected" =>
          \A i \in 1..Len(tunnels.list) :
             tunnels.list[i].promise # "rejected" =>
                (~tunnels.list[i].running /\ tunnels.list[i].stopCalls > 0))
  /\ [][\A i \in 1..Len(tunnels.list) :
          /\ tunnels.list[i].promise # "pending" =>
               /\ tunnels'.list[i].promise = tunnels.list[i].promise
               /\ tunnels'.list[i].by = tunnels.list[i].by
          /\ tunnels'.list[i].promise = "resolved" => tunnels'.list[i].by = "url"
          /\ tunnels'.list[i].promise = "rejected" =>
               tunnels'.list[i].by \in {"error", "timeout"}]_vars

\* two ports: the tunnel of the first is connected and running, the tunnel of
\* the second timed out, startTunnels has rejected, nothing stopped the first
C39_Witness ==
  /\ tunnels.call = "rejected"
  /\ Len(tunnels.list) = 2
  /\ tunnels.list[1].promise = "resolved"
  /\ tunnels.list[1].urlSeen
  /\ tunnels.list[1].running
  /\ tunnels.list[1].stopCalls = 0
  /\ tunnels.list[2].promise = "rejected"
  /\ tunnels.list[2].by = "timeout"
  /\ ~tunnels.list[2].running

====
